---- MODULE Spec2Model ----
(***************************************************************************)
(* A model of the transaction extraction and classification pipeline of    *)
(* the bank-statement analyzer: amount normalisation, income/expense       *)
(* classification, keyword categorisation, date normalisation and the      *)
(* line extractors.                                                        *)
(*                                                                         *)
(* Python strings are TLA+ strings (Len, SubSeq and \o act on them);       *)
(* Python floats holding decimal amounts are exact rationals               *)
(* [num |-> Int, den |-> Nat \ {0}]; confidences are hundredths (0.6 is    *)
(* 60).  None is the string NoneValue wherever a value may be None.         *)
(***************************************************************************)
EXTENDS Integers, Sequences, FiniteSets, TLC

VARIABLES
    op,            \* name of the operation that produced the current state
    transactions,  \* the list handed to the last batch operation
    classified,    \* result of IncomeExpenseAnalyzer.classify_transactions
    summary,       \* result of IncomeExpenseAnalyzer.get_income_expense_summary
    amountIn,      \* raw value handed to the last amount normaliser call
    amountOut,     \* <<_clean_amount's result, clean_amount's result>> for amountIn
    keywords,      \* KeywordMatcher.keywords, the keyword table
    configFile,    \* the file at the path of the keyword configuration
    matcherIn,     \* argument of the last KeywordMatcher call
    matcherOut,    \* what that call returned, or that it raised
    dateIn,        \* argument of the last report-generator call
    dateOut,       \* what the generators returned for it, or that they raised
    extractIn,     \* the text handed to the last extraction, as its lines
    extractOut,    \* <<PDFReader's transactions, EnhancedPDFReader's transactions>>
    pipelineIn,    \* the file handed to the last run of the whole pipeline
    pipelineOut,   \* the classified transactions of that run, or that it raised
    batch,         \* the batch_categorize call in flight on another thread
    chase,         \* the _parse_chase_statement call in flight, line by line
    filesIn,       \* the documents handed to the last process_pdf_files call
    filesOut,      \* the transactions that call returned, or that it raised
    reading,       \* the extract_text_from_pdf call in flight, its recursive calls included
    combineIn,     \* the arguments of the last _combine_analyses call
    combineOut     \* what that call returned

classifierVars == <<transactions, classified, summary>>

amountVars == <<amountIn, amountOut>>

matcherVars == <<keywords, configFile, matcherIn, matcherOut>>

dateVars == <<dateIn, dateOut>>

extractVars == <<extractIn, extractOut>>

pipelineVars == <<pipelineIn, pipelineOut>>

batchVars == <<batch>>

chaseVars == <<chase>>

filesVars == <<filesIn, filesOut, reading>>

combineVars == <<combineIn, combineOut>>

vars == <<op, classifierVars, amountVars, matcherVars, dateVars, extractVars, pipelineVars,
          batchVars, chaseVars, filesVars, combineVars>>

(***************************************************************************)
(* Strings                                                                 *)
(***************************************************************************)
NoneValue == "<None>"

Char(s, i) == SubSeq(s, i, i)

DigitChars == {"0", "1", "2", "3", "4", "5", "6", "7", "8", "9"}

IsDigit(c) == c \in DigitChars

\* \s of the re module, over the characters the inputs are drawn from
IsSpace(c) == c \in {" ", "\t"}

\* \w of the re module
UpperChars == "ABCDEFGHIJKLMNOPQRSTUVWXYZ"
LowerChars == "abcdefghijklmnopqrstuvwxyz"

UpperSet == {Char(UpperChars, i) : i \in 1..26}
LowerSet == {Char(LowerChars, i) : i \in 1..26}

IsUpper(c) == c \in UpperSet

IsWordChar(c) == IsDigit(c) \/ c = "_" \/ c \in UpperSet \/ c \in LowerSet

LowerOf == [c \in UpperSet |-> Char(LowerChars, CHOOSE i \in 1..26 : Char(UpperChars, i) = c)]

LowerChar(c) == IF IsUpper(c) THEN LowerOf[c] ELSE c

RECURSIVE StrLower(_)
\* str.lower()
StrLower(s) ==
    IF s = "" THEN ""
    ELSE LowerChar(Char(s, 1)) \o StrLower(SubSeq(s, 2, Len(s)))

RECURSIVE LStrip(_)
LStrip(s) ==
    IF s # "" /\ IsSpace(Char(s, 1)) THEN LStrip(SubSeq(s, 2, Len(s))) ELSE s

RECURSIVE RStrip(_)
RStrip(s) ==
    IF s # "" /\ IsSpace(Char(s, Len(s)))
    THEN RStrip(SubSeq(s, 1, Len(s) - 1))
    ELSE s

\* str.strip()
Strip(s) == RStrip(LStrip(s))

\* k occurs in s starting at position i
At(s, i, k) == i >= 1 /\ i + Len(k) - 1 <= Len(s) /\ SubSeq(s, i, i + Len(k) - 1) = k

\* Python's `k in s`
Contains(s, k) == \E i \in 1..(Len(s) - Len(k) + 1) : At(s, i, k)

StartsWith(s, k) == At(s, 1, k)

EndsWith(s, k) == Len(k) <= Len(s) /\ At(s, Len(s) - Len(k) + 1, k)

RECURSIVE RemoveChar(_, _)
\* str.replace(c, '') for a one-character c
RemoveChar(s, c) ==
    IF s = "" THEN ""
    ELSE (IF Char(s, 1) = c THEN "" ELSE Char(s, 1)) \o RemoveChar(SubSeq(s, 2, Len(s)), c)

AllDigits(s) == \A i \in 1..Len(s) : IsDigit(Char(s, i))

DigitVal(c) == CHOOSE d \in 0..9 : Char("0123456789", d + 1) = c

RECURSIVE DigitsToNat(_)
\* int() of a string of digits ("" is 0)
DigitsToNat(s) ==
    IF s = "" THEN 0
    ELSE 10 * DigitsToNat(SubSeq(s, 1, Len(s) - 1)) + DigitVal(Char(s, Len(s)))

RECURSIVE Pow10(_)
Pow10(n) == IF n = 0 THEN 1 ELSE 10 * Pow10(n - 1)

(***************************************************************************)
(* re.search of `a.*b`, `a\s+b` and `a\s+\d+` (no newline is in a line)    *)
(***************************************************************************)
\* a.*b
SearchThen(s, a, b) ==
    \E i \in 1..Len(s) : At(s, i, a) /\ \E j \in (i + Len(a))..Len(s) : At(s, j, b)

\* a.*\d+
SearchThenDigit(s, a) ==
    \E i \in 1..Len(s) :
        At(s, i, a) /\ \E j \in (i + Len(a))..Len(s) : IsDigit(Char(s, j))

\* a\s+
SearchSpace(s, a) ==
    \E i \in 1..Len(s) : At(s, i, a) /\ i + Len(a) <= Len(s) /\ IsSpace(Char(s, i + Len(a)))

\* a\s+b
SearchSpaceThen(s, a, b) ==
    \E i \in 1..Len(s) :
        /\ At(s, i, a)
        /\ \E j \in (i + Len(a) + 1)..Len(s) :
              /\ At(s, j, b)
              /\ \A k \in (i + Len(a))..(j - 1) : IsSpace(Char(s, k))

\* a\s+\d+
SearchSpaceDigit(s, a) ==
    \E i \in 1..Len(s) :
        /\ At(s, i, a)
        /\ \E j \in (i + Len(a) + 1)..Len(s) :
              /\ IsDigit(Char(s, j))
              /\ \A k \in (i + Len(a))..(j - 1) : IsSpace(Char(s, k))

(***************************************************************************)
(* Numbers: a float holding a decimal amount is an exact rational.          *)
(***************************************************************************)
Num(n, d) == [num |-> n, den |-> d]

Zero == Num(0, 1)

\* denominators are powers of ten, so one divides the other
NumEq(a, b) ==
    LET d == IF a.den >= b.den THEN a.den ELSE b.den
    IN  a.num * (d \div a.den) = b.num * (d \div b.den)

NumNeg(a) == Num(-a.num, a.den)

NumAbs(a) == Num(IF a.num < 0 THEN -a.num ELSE a.num, a.den)

NumAdd(a, b) ==
    LET d == IF a.den >= b.den THEN a.den ELSE b.den
    IN  Num(a.num * (d \div a.den) + b.num * (d \div b.den), d)

NumSub(a, b) == NumAdd(a, Num(-b.num, b.den))

NumDivInt(a, n) == Num(a.num, a.den * n)

\* the value has at most two decimal places
AtMostTwoDecimals(a) == (100 * a.num) % a.den = 0

\* float(s): optional surrounding blanks, optional sign, digits with at most one
\* point and at least one digit.  ok = FALSE is ValueError.
ParseFloat(str) ==
    LET s    == Strip(str)
        neg  == s # "" /\ Char(s, 1) = "-"
        sgn  == s # "" /\ Char(s, 1) \in {"-", "+"}
        body == IF sgn THEN SubSeq(s, 2, Len(s)) ELSE s
        dots == {i \in 1..Len(body) : Char(body, i) = "."}
        dot  == IF dots = {} THEN Len(body) + 1 ELSE CHOOSE i \in dots : TRUE
        ip   == SubSeq(body, 1, dot - 1)
        fp   == SubSeq(body, dot + 1, Len(body))
        good == /\ Cardinality(dots) <= 1
                /\ AllDigits(ip) /\ AllDigits(fp)
                /\ Len(ip) + Len(fp) >= 1
        mag  == DigitsToNat(ip) * Pow10(Len(fp)) + DigitsToNat(fp)
    IN  IF good
        THEN [ok |-> TRUE, val |-> Num(IF neg THEN -mag ELSE mag, Pow10(Len(fp)))]
        ELSE [ok |-> FALSE, val |-> Zero]

(***************************************************************************)
(* Raw amounts: a Python value that is a number, a string or None.          *)
(***************************************************************************)
RawNum(v) == [kind |-> "num", str |-> "", num |-> v]
RawStr(s) == [kind |-> "str", str |-> s, num |-> Zero]
RawNone   == [kind |-> "none", str |-> NoneValue, num |-> Zero]

\* str(x) of a raw amount that is no number
PyStr(raw) == IF raw.kind = "none" THEN "None" ELSE raw.str

(***************************************************************************)
(* Amount normalisers.  A result is [raised, val]: raised = TRUE is an     *)
(* exception leaving the function.                                         *)
(***************************************************************************)
Returned(v) == [raised |-> FALSE, val |-> v]

Raised == [raised |-> TRUE, val |-> Zero]

\* `except (ValueError, AttributeError): return 0.0` of the normalisers
AmountCaught == {"ValueError", "AttributeError"}

OnAmountError(e) == IF e \in AmountCaught THEN Returned(Zero) ELSE Raised

\* if cleaned.startswith('(') and cleaned.endswith(')'): cleaned = '-' + cleaned[1:-1]
Parenthesised(cleaned) ==
    IF StartsWith(cleaned, "(") /\ EndsWith(cleaned, ")")
    THEN "-" \o SubSeq(cleaned, 2, Len(cleaned) - 1)
    ELSE cleaned

\* if cleaned.startswith('+'): cleaned = cleaned[1:]
PlusStripped(cleaned) ==
    IF StartsWith(cleaned, "+") THEN SubSeq(cleaned, 2, Len(cleaned)) ELSE cleaned

\* _clean_amount without the parentheses rule
CleanAmountNoParentheses(raw) ==
    IF raw.kind = "num" THEN Returned(raw.num)
    ELSE LET cleaned == Strip(RemoveChar(RemoveChar(PyStr(raw), "$"), ","))
             p       == ParseFloat(PlusStripped(cleaned))
         IN  IF p.ok THEN Returned(p.val) ELSE OnAmountError("ValueError")

\* IncomeExpenseAnalyzer._clean_amount
_clean_amount(raw) ==
    IF raw.kind = "num" THEN Returned(raw.num)
    ELSE LET cleaned == Strip(RemoveChar(RemoveChar(PyStr(raw), "$"), ","))
             p       == ParseFloat(PlusStripped(Parenthesised(cleaned)))
         IN  IF p.ok THEN Returned(p.val) ELSE OnAmountError("ValueError")

\* EnhancedPDFReader.clean_amount: amount_str.strip() of a value that is no
\* string is an AttributeError
clean_amount(raw) ==
    IF raw.kind # "str" THEN OnAmountError("AttributeError")
    ELSE LET cleaned == RemoveChar(RemoveChar(Strip(raw.str), "$"), ",")
             p       == ParseFloat(PlusStripped(Parenthesised(cleaned)))
         IN  IF p.ok THEN Returned(p.val) ELSE OnAmountError("ValueError")

(***************************************************************************)
(* Transactions: Python dicts, here records whose fields may be absent.     *)
(***************************************************************************)
\* the value of a set that holds one value; `{F(x) : x \in {e}}` evaluates e once
TheOne(S) == CHOOSE x \in S : TRUE

\* the least and the greatest of a set of positions
First(S) == CHOOSE i \in S : \A j \in S : i <= j

Last(S) == CHOOSE i \in S : \A j \in S : i >= j

\* dict.get(key, default)
Get(t, key, default) == IF key \in DOMAIN t THEN t[key] ELSE default

\* a new dict holding the assignments of `extra` only
NotCopied(t, extra) == extra

\* dict.copy() followed by the assignments of `extra`
Updated(t, extra) ==
    [f \in (DOMAIN t) \cup (DOMAIN extra) |-> IF f \in DOMAIN extra THEN extra[f] ELSE t[f]]

(***************************************************************************)
(* IncomeExpenseAnalyzer                                                   *)
(***************************************************************************)
\* self.income_keywords, the lists of the dict in order
income_keywords ==
    << "salary", "payroll", "wages", "income", "pay check", "paycheck",
       "deposit", "direct deposit", "ach credit", "credit", "transfer in",
       "refund", "return", "reimbursement", "cashback", "cash back",
       "interest", "dividend", "earnings",
       "payment received", "invoice payment", "client payment",
       "tax refund", "stimulus", "unemployment", "social security",
       "bonus", "commission", "freelance", "consulting" >>

\* self.expense_keywords, the lists of the dict in order
expense_keywords ==
    << "purchase", "walmart", "target", "amazon", "costco", "store",
       "restaurant", "cafe", "food", "dining", "mcdonald", "starbucks", "pizza",
       "gas", "fuel", "uber", "lyft", "taxi", "parking", "toll",
       "electric", "water", "gas bill", "internet", "phone", "cable",
       "hospital", "pharmacy", "doctor", "medical", "dental",
       "fee", "charge", "atm", "overdraft", "service charge",
       "movie", "netflix", "spotify", "gaming", "entertainment",
       "rent", "mortgage", "insurance", "property",
       "withdrawal", "debit", "payment", "transfer out" >>

\* self.income_patterns, as written in the source
income_patterns ==
    << "direct dep|dd\\s+|payroll|salary",
       "ach credit|credit\\s+\\d+",
       "deposit.*\\+|\\+.*deposit",
       "refund|return|reimbursement",
       "interest.*earned|dividend",
       "transfer.*in|incoming" >>

\* self.expense_patterns, as written in the source
expense_patterns ==
    << "debit purchase|pos purchase|card purchase",
       "withdrawal|atm|cash advance",
       "check.*\\d+|ck\\s+\\d+",
       "payment.*to|pay\\s+to",
       "fee|charge|penalty",
       "transfer.*out|outgoing" >>

\* re.search(self.income_patterns[i], description, re.IGNORECASE), d being the
\* description with its case folded
IncomePatternSearch(i, d) ==
        CASE i = 1 -> \/ Contains(d, "direct dep") \/ SearchSpace(d, "dd")
                      \/ Contains(d, "payroll") \/ Contains(d, "salary")
          [] i = 2 -> Contains(d, "ach credit") \/ SearchSpaceDigit(d, "credit")
          [] i = 3 -> SearchThen(d, "deposit", "+") \/ SearchThen(d, "+", "deposit")
          [] i = 4 -> \/ Contains(d, "refund") \/ Contains(d, "return")
                      \/ Contains(d, "reimbursement")
          [] i = 5 -> SearchThen(d, "interest", "earned") \/ Contains(d, "dividend")
          [] i = 6 -> SearchThen(d, "transfer", "in") \/ Contains(d, "incoming")

\* re.search(self.expense_patterns[i], description, re.IGNORECASE), d being the
\* description with its case folded
ExpensePatternSearch(i, d) ==
        CASE i = 1 -> \/ Contains(d, "debit purchase") \/ Contains(d, "pos purchase")
                      \/ Contains(d, "card purchase")
          [] i = 2 -> \/ Contains(d, "withdrawal") \/ Contains(d, "atm")
                      \/ Contains(d, "cash advance")
          [] i = 3 -> SearchThenDigit(d, "check") \/ SearchSpaceDigit(d, "ck")
          [] i = 4 -> SearchThen(d, "payment", "to") \/ SearchSpaceThen(d, "pay", "to")
          [] i = 5 -> \/ Contains(d, "fee") \/ Contains(d, "charge")
                      \/ Contains(d, "penalty")
          [] i = 6 -> SearchThen(d, "transfer", "out") \/ Contains(d, "outgoing")

\* an analysis result (type or None, confidence, reason); a reason is the
\* text before the colon and the items after it
Evidence(t, c, k, items) == [type |-> t, confidence |-> c, reason |-> [kind |-> k, items |-> items]]

Min(a, b) == IF a <= b THEN a ELSE b
Max(a, b) == IF a >= b THEN a ELSE b

\* IncomeExpenseAnalyzer._analyze_patterns
_analyze_patterns(description) ==
    LET d   == StrLower(description)
        inc == {i \in 1..Len(income_patterns) : IncomePatternSearch(i, d)}
        exp == {i \in 1..Len(expense_patterns) : ExpensePatternSearch(i, d)}
        first(S) == CHOOSE i \in S : \A j \in S : i <= j
    IN  IF inc # {}
        THEN Evidence("income", 90, "Income pattern", <<income_patterns[first(inc)]>>)
        ELSE IF exp # {}
        THEN Evidence("expense", 90, "Expense pattern", <<expense_patterns[first(exp)]>>)
        ELSE Evidence(NoneValue, 0, "No pattern match", <<>>)

RECURSIVE Matched(_, _, _)
\* the f'<side>:<keyword>' entries appended for the keywords of `list`
\* that occur in the description, in list order
Matched(list, side, description) ==
    IF list = <<>> THEN <<>>
    ELSE (IF Contains(description, Head(list)) THEN <<side \o ":" \o Head(list)>> ELSE <<>>)
         \o Matched(Tail(list), side, description)

\* _analyze_keywords without the min(0.8, ...) cap
AnalyzeKeywordsUncapped(description) ==
    LET income_score  == Len(Matched(income_keywords, "income", description))
        expense_score == Len(Matched(expense_keywords, "expense", description))
    IN  IF income_score > expense_score
        THEN Evidence("income", 50 + (income_score - expense_score) * 10, "Keywords", <<>>)
        ELSE IF expense_score > income_score
        THEN Evidence("expense", 50 + (expense_score - income_score) * 10, "Keywords", <<>>)
        ELSE Evidence(NoneValue, 0, "No keyword match", <<>>)

\* _analyze_keywords counting from 0.4: one keyword of margin gives 0.5
AnalyzeKeywordsFromHalf(description) ==
    LET inc              == Matched(income_keywords, "income", description)
        exp              == Matched(expense_keywords, "expense", description)
        income_score     == Len(inc)
        expense_score    == Len(exp)
        matched_keywords == inc \o exp
        first3           == SubSeq(matched_keywords, 1, Min(3, Len(matched_keywords)))
    IN  IF income_score > expense_score
        THEN Evidence("income", Min(80, 40 + (income_score - expense_score) * 10),
                      "Keywords", first3)
        ELSE IF expense_score > income_score
        THEN Evidence("expense", Min(80, 40 + (expense_score - income_score) * 10),
                      "Keywords", first3)
        ELSE Evidence(NoneValue, 0, "No keyword match", <<>>)

\* IncomeExpenseAnalyzer._analyze_keywords
_analyze_keywords(description) ==
    LET inc              == Matched(income_keywords, "income", description)
        exp              == Matched(expense_keywords, "expense", description)
        income_score     == Len(inc)
        expense_score    == Len(exp)
        matched_keywords == inc \o exp
        first3           == SubSeq(matched_keywords, 1, Min(3, Len(matched_keywords)))
    IN  IF income_score > expense_score
        THEN Evidence("income", Min(80, 50 + (income_score - expense_score) * 10),
                      "Keywords", first3)
        ELSE IF expense_score > income_score
        THEN Evidence("expense", Min(80, 50 + (expense_score - income_score) * 10),
                      "Keywords", first3)
        ELSE Evidence(NoneValue, 0, "No keyword match", <<>>)

\* _combine_analyses with the keyword evidence consulted before the patterns
CombineKeywordsFirst(base_type, base_confidence, pattern_result, keyword_result) ==
    IF keyword_result.type # NoneValue /\ keyword_result.confidence >= 60
    THEN keyword_result
    ELSE IF pattern_result.type # NoneValue /\ pattern_result.confidence >= 80
    THEN pattern_result
    ELSE Evidence(base_type, base_confidence, "Amount-based classification", <<>>)

\* _combine_analyses lowering the amount-based confidence whenever the
\* keywords do not decide
CombineAlwaysReduced(base_type, base_confidence, pattern_result, keyword_result) ==
    IF pattern_result.type # NoneValue /\ pattern_result.confidence >= 80
    THEN pattern_result
    ELSE IF keyword_result.type # NoneValue /\ keyword_result.confidence >= 60
    THEN keyword_result
    ELSE Evidence(base_type, Max(30, base_confidence - 20), "Amount-based classification", <<>>)

\* _combine_analyses taking the keyword evidence only where it agrees with
\* the sign of the amount
CombineAgreeingKeywords(base_type, base_confidence, pattern_result, keyword_result) ==
    IF pattern_result.type # NoneValue /\ pattern_result.confidence >= 80
    THEN pattern_result
    ELSE IF keyword_result.type = base_type /\ keyword_result.confidence >= 60
    THEN keyword_result
    ELSE Evidence(base_type, base_confidence, "Amount-based classification", <<>>)

\* _combine_analyses without the branch of the conflicting keywords
CombineIgnoringConflict(base_type, base_confidence, pattern_result, keyword_result) ==
    IF pattern_result.type # NoneValue /\ pattern_result.confidence >= 80
    THEN pattern_result
    ELSE IF keyword_result.type # NoneValue /\ keyword_result.confidence >= 60
    THEN keyword_result
    ELSE Evidence(base_type, base_confidence, "Amount-based classification", <<>>)

\* IncomeExpenseAnalyzer._combine_analyses.  The amount text of the
\* amount-based reason is left out of the reason.
_combine_analyses(base_type, base_confidence, pattern_result, keyword_result) ==
    IF pattern_result.type # NoneValue /\ pattern_result.confidence >= 80
    THEN pattern_result
    ELSE IF keyword_result.type # NoneValue /\ keyword_result.confidence >= 60
    THEN keyword_result
    ELSE IF /\ keyword_result.type # NoneValue
            /\ keyword_result.type # base_type
            /\ keyword_result.confidence >= 40
    THEN Evidence(base_type, Max(30, base_confidence - 20), "Amount-based but",
                  <<base_type, keyword_result.reason.kind>> \o keyword_result.reason.items)
    ELSE Evidence(base_type, base_confidence, "Amount-based classification", <<>>)

\* analyze_transaction were it to trust a category already assigned
AnalyzeReadingCategory(transaction) ==
    LET known == Get(transaction, "category", "Uncategorized") # "Uncategorized"
        Analysis(d0, amount) ==
            IF d0 = NoneValue \/ amount.raised
            THEN [raised |-> TRUE, result |-> Evidence(NoneValue, 0, "", <<>>)]
            ELSE LET base_type       == IF amount.val.num > 0 THEN "income" ELSE "expense"
                     base_confidence == IF amount.val.num # 0 THEN 60 ELSE 30
                     Combined(description) ==
                         _combine_analyses(base_type, base_confidence,
                                           _analyze_patterns(description),
                                           _analyze_keywords(description))
                     Trusting(combined) ==
                         IF known
                         THEN [combined EXCEPT !.confidence = Min(combined.confidence + 5, 95)]
                         ELSE combined
                 IN  [raised |-> FALSE,
                      result |-> TheOne({Trusting(Combined(description)) :
                                            description \in {Strip(StrLower(d0))}})]
    IN  TheOne({Analysis(d0, amount) :
                   d0 \in {Get(transaction, "description", "")},
                   amount \in {_clean_amount(Get(transaction, "amount", RawNum(Zero)))}})

\* IncomeExpenseAnalyzer.analyze_transaction; None.lower() is an
\* AttributeError that nothing catches
analyze_transaction(transaction) ==
    LET Analysis(d0, amount) ==
            IF d0 = NoneValue \/ amount.raised
            THEN [raised |-> TRUE, result |-> Evidence(NoneValue, 0, "", <<>>)]
            ELSE LET base_type       == IF amount.val.num > 0 THEN "income" ELSE "expense"
                     base_confidence == IF amount.val.num # 0 THEN 60 ELSE 30
                     Combined(description) ==
                         _combine_analyses(base_type, base_confidence,
                                           _analyze_patterns(description),
                                           _analyze_keywords(description))
                 IN  [raised |-> FALSE,
                      result |-> TheOne({Combined(description) :
                                            description \in {Strip(StrLower(d0))}})]
    IN  TheOne({Analysis(d0, amount) :
                   d0 \in {Get(transaction, "description", "")},
                   amount \in {_clean_amount(Get(transaction, "amount", RawNum(Zero)))}})

RECURSIVE SumAbsAmounts(_)
\* sum(abs(self._clean_amount(t.get('amount', 0))) for t in txs)
SumAbsAmounts(txs) ==
    IF txs = <<>> THEN Zero
    ELSE NumAdd(NumAbs(_clean_amount(Get(Head(txs), "amount", RawNum(Zero))).val),
                SumAbsAmounts(Tail(txs)))

\* IncomeExpenseAnalyzer.get_income_expense_summary
get_income_expense_summary(txs) ==
    LET income_transactions  ==
            SelectSeq(txs, LAMBDA t : Get(t, "transaction_type", NoneValue) = "income")
        expense_transactions ==
            SelectSeq(txs, LAMBDA t : Get(t, "transaction_type", NoneValue) = "expense")
        total_income   == SumAbsAmounts(income_transactions)
        total_expenses == SumAbsAmounts(expense_transactions)
    IN  [total_income   |-> total_income,
         total_expenses |-> total_expenses,
         net_amount     |-> NumSub(total_income, total_expenses),
         income_count   |-> Len(income_transactions),
         expense_count  |-> Len(expense_transactions),
         income_avg     |-> IF income_transactions # <<>>
                            THEN NumDivInt(total_income, Len(income_transactions))
                            ELSE Zero,
         expense_avg    |-> IF expense_transactions # <<>>
                            THEN NumDivInt(total_expenses, Len(expense_transactions))
                            ELSE Zero]

(***************************************************************************)
(* KeywordMatcher.  The keyword table is the sequence of the entries of    *)
(* the dict self.keywords in insertion order; an entry in dict format      *)
(* holds the lists keywords.get('exact', []), keywords.get('fuzzy', [])    *)
(* and keywords.get('regex', []), an entry in list format holds the list.  *)
(* A similarity is the exact fraction [n / d].                             *)
(***************************************************************************)
DictEntry(category, exact, fuzzy, regex) ==
    [category |-> category, form |-> "dict", exact |-> exact, fuzzy |-> fuzzy,
     regex |-> regex]

ListEntry(category, keyword_list) ==
    [category |-> category, form |-> "list", exact |-> keyword_list, fuzzy |-> <<>>,
     regex |-> <<>>]

\* truth value of an Optional[str]: None and '' are false
Truthy(c) == c # NoneValue /\ c # ""

Score(n, d) == [n |-> n, d |-> d]

ScoreGt(x, y) == x.n * y.d > y.n * x.d

ScoreMax(x, y) == IF ScoreGt(y, x) THEN y ELSE x

\* self.fuzzy_threshold = 0.8
fuzzy_threshold == Score(8, 10)

\* the floor `max(similarity, 0.9)` of a keyword found inside the description
SubstringSimilarity == Score(9, 10)

RECURSIVE RunLength(_, _, _, _, _, _)
\* length of the common run of a[i..ahi-1] and b[j..bhi-1] starting at i and j
RunLength(a, b, i, j, ahi, bhi) ==
    IF i < ahi /\ j < bhi /\ Char(a, i) = Char(b, j)
    THEN 1 + RunLength(a, b, i + 1, j + 1, ahi, bhi)
    ELSE 0

\* SequenceMatcher.find_longest_match without junk: the longest block, of
\* those the one starting earliest in a, of those the one starting earliest in b
find_longest_match(a, b, alo, ahi, blo, bhi) ==
    LET blocks == {[i |-> i, j |-> j, k |-> RunLength(a, b, i, j, ahi, bhi)] :
                      i \in alo..(ahi - 1), j \in blo..(bhi - 1)}
        Least(S) == TheOne({TheOne({x \in T : \A y \in T : x <= y}) : T \in {S}})
        Longest(bs) ==
            TheOne({{m \in bs : m.k = k} : k \in {-Least({-m.k : m \in bs})}})
        EarliestInA(bs) ==
            TheOne({{m \in bs : m.i = i} : i \in {Least({m.i : m \in bs})}})
        EarliestInB(bs) ==
            TheOne({{m \in bs : m.j = j} : j \in {Least({m.j : m \in bs})}})
    IN  TheOne({TheOne(EarliestInB(inA)) :
                   inA \in {TheOne({EarliestInA(longest) :
                                      longest \in {TheOne({Longest(bs) : bs \in {blocks}})}})}})

RECURSIVE MatchedSize(_, _, _, _, _, _)
\* sum of the sizes of SequenceMatcher.get_matching_blocks
MatchedSize(a, b, alo, ahi, blo, bhi) ==
    IF alo >= ahi \/ blo >= bhi THEN 0
    ELSE TheOne({ IF m.k = 0 THEN 0
                  ELSE m.k + MatchedSize(a, b, alo, m.i, blo, m.j)
                           + MatchedSize(a, b, m.i + m.k, ahi, m.j + m.k, bhi) :
                  m \in {find_longest_match(a, b, alo, ahi, blo, bhi)} })

\* SequenceMatcher(None, a, b).ratio(): 2.0 * matches / length, 1.0 when both are empty
Ratio(a, b) ==
    IF Len(a) + Len(b) = 0 THEN Score(1, 1)
    ELSE Score(2 * MatchedSize(a, b, 1, Len(a) + 1, 1, Len(b) + 1), Len(a) + Len(b))

\* KeywordMatcher._exact_match
_exact_match(kw, description) ==
    LET hit(i) == \E n \in 1..Len(kw[i].exact) :
                      Contains(description, StrLower(kw[i].exact[n]))
        from[i \in 1..(Len(kw) + 1)] ==
            IF i > Len(kw) THEN NoneValue
            ELSE IF hit(i) THEN kw[i].category
            ELSE from[i + 1]
    IN  from[1]

RECURSIVE FuzzyPairs(_)
\* the <<category, keyword>> pairs in the order _fuzzy_match visits them
FuzzyPairs(kw) ==
    IF kw = <<>> THEN <<>>
    ELSE LET e == Head(kw)
         IN  (IF e.form = "dict"
              THEN [n \in 1..Len(e.fuzzy) |-> <<e.category, e.fuzzy[n]>>]
              ELSE <<>>) \o FuzzyPairs(Tail(kw))

\* similarity of one fuzzy keyword to the description
Similarity(keyword, description) ==
    LET ratio == Ratio(StrLower(keyword), description)
    IN  IF Contains(description, StrLower(keyword))
        THEN ScoreMax(ratio, SubstringSimilarity)
        ELSE ratio

RECURSIVE FuzzyLoop(_, _, _, _)
FuzzyLoop(pairs, description, best_match, best_score) ==
    IF pairs = <<>> THEN best_match
    ELSE TheOne({ IF ScoreGt(similarity, fuzzy_threshold) /\ ScoreGt(similarity, best_score)
                  THEN FuzzyLoop(Tail(pairs), description, Head(pairs)[1], similarity)
                  ELSE FuzzyLoop(Tail(pairs), description, best_match, best_score) :
                  similarity \in {Similarity(Head(pairs)[2], description)} })

\* KeywordMatcher._fuzzy_match
_fuzzy_match(kw, description) ==
    FuzzyLoop(FuzzyPairs(kw), description, NoneValue, Score(0, 1))

\* characters with a meaning in a pattern besides the `.*` the tables use
RegexMeta == {"[", "]", "(", ")", "\\", "+", "?", "^", "$", "|", "{", "}", ".", "*"}

RECURSIVE Pieces(_, _)
\* the literals of a pattern that is literals joined by `.*`
Pieces(pattern, piece) ==
    IF pattern = "" THEN <<piece>>
    ELSE IF StartsWith(pattern, ".*")
    THEN <<piece>> \o Pieces(SubSeq(pattern, 3, Len(pattern)), "")
    ELSE Pieces(SubSeq(pattern, 2, Len(pattern)), piece \o Char(pattern, 1))

\* re.compile succeeds; of the patterns outside literals joined by `.*` the
\* tables hold the unterminated set "[" only, which raises re.error
Compiles(pattern) ==
    \A n \in 1..Len(Pieces(pattern, "")) :
        \A i \in 1..Len(Pieces(pattern, "")[n]) :
            Char(Pieces(pattern, "")[n], i) \notin RegexMeta

\* least position >= from at which k occurs in s, 0 when there is none
Find(s, k, from) ==
    LET at == {i \in from..(Len(s) + 1) : At(s, i, k)}
    IN  IF at = {} THEN 0 ELSE CHOOSE i \in at : \A j \in at : i <= j

RECURSIVE PiecesIn(_, _, _)
PiecesIn(s, pieces, from) ==
    IF pieces = <<>> THEN TRUE
    ELSE LET i == Find(s, Head(pieces), from)
         IN  i # 0 /\ PiecesIn(s, Tail(pieces), i + Len(Head(pieces)))

\* re.search(pattern, description, re.IGNORECASE) is not None
RegexSearch(pattern, description) ==
    PiecesIn(StrLower(description), Pieces(StrLower(pattern), ""), 1)

\* KeywordMatcher._regex_match; a pattern that raises re.error is skipped
_regex_match(kw, description) ==
    LET hit(i) == /\ kw[i].form = "dict"
                  /\ \E n \in 1..Len(kw[i].regex) :
                        /\ Compiles(kw[i].regex[n])
                        /\ RegexSearch(kw[i].regex[n], description)
        from[i \in 1..(Len(kw) + 1)] ==
            IF i > Len(kw) THEN NoneValue
            ELSE IF hit(i) THEN kw[i].category
            ELSE from[i + 1]
    IN  from[1]

\* match_transaction trying the fuzzy tier before the exact tier
MatchFuzzyFirst(kw, description) ==
    IF description = NoneValue THEN [raised |-> TRUE, val |-> NoneValue]
    ELSE LET description_lower == Strip(StrLower(description))
             exact_match == _exact_match(kw, description_lower)
             fuzzy_match == _fuzzy_match(kw, description_lower)
             regex_match == _regex_match(kw, description_lower)
         IN  Returned(IF Truthy(fuzzy_match) THEN fuzzy_match
                      ELSE IF Truthy(exact_match) THEN exact_match
                      ELSE IF Truthy(regex_match) THEN regex_match
                      ELSE NoneValue)

\* KeywordMatcher.match_transaction; None has no lower(), the AttributeError
\* leaves the call
match_transaction(kw, description) ==
    IF description = NoneValue THEN [raised |-> TRUE, val |-> NoneValue]
    ELSE LET description_lower == Strip(StrLower(description))
             exact_match == _exact_match(kw, description_lower)
             fuzzy_match == _fuzzy_match(kw, description_lower)
             regex_match == _regex_match(kw, description_lower)
         IN  Returned(IF Truthy(exact_match) THEN exact_match
                      ELSE IF Truthy(fuzzy_match) THEN fuzzy_match
                      ELSE IF Truthy(regex_match) THEN regex_match
                      ELSE NoneValue)

\* the template export_keywords_template writes
KeywordsTemplate ==
    << DictEntry("Food & Dining",
                 <<"restaurant", "cafe", "pizza", "mcdonald", "starbucks", "subway">>,
                 <<"dining", "food", "lunch", "dinner">>,
                 <<".*restaurant.*", ".*cafe.*">>),
       DictEntry("Transportation",
                 <<"gas", "fuel", "uber", "lyft", "taxi", "parking">>,
                 <<"transport", "travel">>,
                 <<".*gas.*station.*", ".*parking.*">>),
       DictEntry("Shopping",
                 <<"amazon", "walmart", "target", "costco", "mall">>,
                 <<"shopping", "store">>,
                 <<".*shop.*", ".*store.*">>),
       DictEntry("Utilities",
                 <<"electric", "water", "gas bill", "internet", "phone">>,
                 <<"utility", "bill">>,
                 <<".*electric.*company.*", ".*water.*dept.*">>),
       DictEntry("Healthcare",
                 <<"hospital", "pharmacy", "doctor", "medical">>,
                 <<"health", "medical">>,
                 <<".*medical.*", ".*pharmacy.*">>) >>

\* the file at the configuration path
MissingFile == [state |-> "missing", table |-> <<>>]
InvalidJsonFile == [state |-> "invalid", table |-> <<>>]
JsonFile(table) == [state |-> "valid", table |-> table]

\* KeywordMatcher.load_keywords: the value self.keywords is left with;
\* FileNotFoundError and JSONDecodeError are caught
load_keywords(file) == IF file.state = "valid" THEN file.table ELSE <<>>

\* export_keywords_template: the file afterwards; a failed write is logged only
export_keywords_template(file, writable) ==
    IF writable THEN JsonFile(KeywordsTemplate) ELSE file

(***************************************************************************)
(* The date normalisers of the report generators.  A date that is not a   *)
(* string (an int read from a spreadsheet) is the value NotAString.        *)
(***************************************************************************)
NotAString == "<int>"

RECURSIVE Split(_, _, _)
\* str.split(sep), `token` being the part read so far
Split(s, sep, token) ==
    IF s = "" THEN <<token>>
    ELSE IF Char(s, 1) = sep
    THEN <<token>> \o Split(SubSeq(s, 2, Len(s)), sep, "")
    ELSE Split(SubSeq(s, 2, Len(s)), sep, token \o Char(s, 1))

NonZeroDigit(c) == IsDigit(c) /\ c # "0"

\* the directives of _strptime as the regular expressions it compiles them to:
\* %m is 1[0-2]|0[1-9]|[1-9]
MatchesMonth(t) ==
    \/ Len(t) = 2 /\ Char(t, 1) = "1" /\ Char(t, 2) \in {"0", "1", "2"}
    \/ Len(t) = 2 /\ Char(t, 1) = "0" /\ NonZeroDigit(Char(t, 2))
    \/ Len(t) = 1 /\ NonZeroDigit(t)

\* %d is 3[0-1]|[1-2]\d|0[1-9]|[1-9]| [1-9]
MatchesDay(t) ==
    \/ Len(t) = 2 /\ Char(t, 1) = "3" /\ Char(t, 2) \in {"0", "1"}
    \/ Len(t) = 2 /\ Char(t, 1) \in {"1", "2"} /\ IsDigit(Char(t, 2))
    \/ Len(t) = 2 /\ Char(t, 1) \in {"0", " "} /\ NonZeroDigit(Char(t, 2))
    \/ Len(t) = 1 /\ NonZeroDigit(t)

\* %Y is \d\d\d\d and %y is \d\d
MatchesDirective(directive, t) ==
    CASE directive = "m" -> MatchesMonth(t)
      [] directive = "d" -> MatchesDay(t)
      [] directive = "Y" -> Len(t) = 4 /\ AllDigits(t)
      [] directive = "y" -> Len(t) = 2 /\ AllDigits(t)

IsLeap(year) == (year % 4 = 0 /\ year % 100 # 0) \/ year % 400 = 0

DaysInMonth(year, month) ==
    IF month = 2 THEN (IF IsLeap(year) THEN 29 ELSE 28)
    ELSE IF month \in {4, 6, 9, 11} THEN 30
    ELSE 31

\* a format of date_formats: three directives joined by one separator
DateFormat(a, b, c, sep) == [directives |-> <<a, b, c>>, sep |-> sep]

\* date_formats, in the order the loop tries them
date_formats ==
    << DateFormat("m", "d", "Y", "/"), DateFormat("m", "d", "Y", "-"),
       DateFormat("Y", "m", "d", "-"), DateFormat("d", "m", "Y", "/"),
       DateFormat("d", "m", "Y", "-"), DateFormat("m", "d", "y", "/"),
       DateFormat("m", "d", "y", "-") >>

\* datetime.strptime(s, fmt): the whole string must match the directives and
\* name a day of the calendar, otherwise ValueError (ok is FALSE)
strptime(s, fmt) ==
    LET tokens == Split(s, fmt.sep, "")
        at(directive) == CHOOSE n \in 1..3 : fmt.directives[n] = directive
        value(directive) == DigitsToNat(Strip(tokens[at(directive)]))
        two == "y" \in {fmt.directives[n] : n \in 1..3}
        year == IF two
                THEN (IF value("y") <= 68 THEN 2000 + value("y") ELSE 1900 + value("y"))
                ELSE value("Y")
        matched == /\ Len(tokens) = 3
                   /\ \A n \in 1..3 : MatchesDirective(fmt.directives[n], tokens[n])
    IN  IF matched /\ year >= 1 /\ value("d") <= DaysInMonth(year, value("m"))
        THEN [ok |-> TRUE, year |-> year, month |-> value("m")]
        ELSE [ok |-> FALSE, year |-> 0, month |-> 0]

RECURSIVE Decimal(_)
\* str(n) for n >= 0
Decimal(n) ==
    IF n < 10 THEN Char("0123456789", n + 1)
    ELSE Decimal(n \div 10) \o Char("0123456789", (n % 10) + 1)

RECURSIVE ZeroPadded(_, _)
\* f"{n:0{width}d}"
ZeroPadded(text, width) ==
    IF Len(text) >= width THEN text ELSE ZeroPadded("0" \o text, width)

\* a month key whose month is not padded
MonthKeyUnpadded(year, month) == Decimal(year) \o "-" \o Decimal(month)

\* parsed_date.strftime('%Y-%m'): the C library writes %Y without padding, so
\* a year below 1000 has fewer than four digits
strftime(year, month) == Decimal(year) \o "-" \o ZeroPadded(Decimal(month), 2)

\* f"{year:04d}-{month:02d}"
MonthKey(year, month) ==
    ZeroPadded(Decimal(year), 4) \o "-" \o ZeroPadded(Decimal(month), 2)

\* re.match(r'^\d{1,2}/\d{1,2}$', date_str)
BareMonthDay(date_str) ==
    LET tokens == Split(date_str, "/", "")
    IN  /\ Len(tokens) = 2
        /\ \A n \in 1..2 : Len(tokens[n]) \in {1, 2} /\ AllDigits(tokens[n])

\* the year a bare MM/DD is given
AssumedYear == "/2025"

\* a pattern of date_patterns: digits, [/-], digits, [/-], digits, each run of
\* digits being \d{least,most}
DatePattern(a, b, c) == <<a, b, c>>

\* date_patterns, in the order the loop tries them
date_patterns ==
    << DatePattern(<<1, 2>>, <<1, 2>>, <<4, 4>>),
       DatePattern(<<1, 2>>, <<1, 2>>, <<2, 2>>),
       DatePattern(<<4, 4>>, <<1, 2>>, <<1, 2>>) >>

DateSeparator(c) == c \in {"/", "-"}

DigitsAt(s, i, n) == i >= 1 /\ i + n - 1 <= Len(s) /\ AllDigits(SubSeq(s, i, i + n - 1))

\* the pattern matches at i with groups of the widths w
MatchesAt(s, i, w) ==
    /\ DigitsAt(s, i, w[1])
    /\ i + w[1] <= Len(s) /\ DateSeparator(Char(s, i + w[1]))
    /\ DigitsAt(s, i + w[1] + 1, w[2])
    /\ i + w[1] + 1 + w[2] <= Len(s) /\ DateSeparator(Char(s, i + w[1] + 1 + w[2]))
    /\ DigitsAt(s, i + w[1] + w[2] + 2, w[3])

\* re.search(pattern, s).groups(): the leftmost match, every group as long as
\* the rest of the pattern allows, earlier groups first
search_date(pattern, s) ==
    LET widths == {w \in (1..4) \X (1..4) \X (1..4) :
                      \A n \in 1..3 : pattern[n][1] <= w[n] /\ w[n] <= pattern[n][2]}
        found == {m \in (1..Len(s)) \X widths : MatchesAt(s, m[1], m[2])}
        prior(m, q) ==
            \/ m[1] < q[1]
            \/ m[1] = q[1] /\ m[2][1] > q[2][1]
            \/ m[1] = q[1] /\ m[2][1] = q[2][1] /\ m[2][2] > q[2][2]
            \/ m[1] = q[1] /\ m[2][1] = q[2][1] /\ m[2][2] = q[2][2] /\ m[2][3] >= q[2][3]
    IN  IF found = {} THEN <<>>
        ELSE LET m == CHOOSE m \in found : \A q \in found : prior(m, q)
                 i == m[1]
                 w == m[2]
             IN  << SubSeq(s, i, i + w[1] - 1),
                    SubSeq(s, i + w[1] + 1, i + w[1] + w[2]),
                    SubSeq(s, i + w[1] + w[2] + 2, i + w[1] + w[2] + w[3] + 1) >>

\* the body of `if match:` in the regex fallback
MonthKeyOfGroups(groups) ==
    LET year == IF Len(groups[3]) = 2
                THEN (IF DigitsToNat(groups[3]) < 50
                      THEN 2000 + DigitsToNat(groups[3])
                      ELSE 1900 + DigitsToNat(groups[3]))
                ELSE DigitsToNat(groups[3])
        month == IF Len(groups[1]) <= 2 /\ DigitsToNat(groups[1]) <= 12
                 THEN DigitsToNat(groups[1])
                 ELSE DigitsToNat(groups[2])
    IN  MonthKey(year, month)

\* the loop over date_patterns
RegexFallback(date_str) ==
    LET hits == {n \in 1..Len(date_patterns) : search_date(date_patterns[n], date_str) # <<>>}
    IN  IF hits = {} THEN NoneValue
        ELSE MonthKeyOfGroups(search_date(date_patterns[CHOOSE n \in hits : \A k \in hits : n <= k],
                                          date_str))

\* _extract_month_year of the three generators; the pivot generator has no
\* regex fallback.  re.match on a value that is not a string raises TypeError,
\* which `except Exception` turns into None.
ExtractMonthYear(date_str, fallback) ==
    IF date_str = NoneValue \/ date_str = "" THEN Returned(NoneValue)
    ELSE IF date_str = NotAString THEN Returned(NoneValue)
    ELSE LET dated == IF BareMonthDay(date_str) THEN date_str \o AssumedYear ELSE date_str
             parsed == {n \in 1..Len(date_formats) : strptime(Strip(dated), date_formats[n]).ok}
         IN  IF parsed # {}
             THEN LET p == strptime(Strip(dated),
                                    date_formats[CHOOSE n \in parsed : \A k \in parsed : n <= k])
                  IN  Returned(strftime(p.year, p.month))
             ELSE IF fallback THEN Returned(RegexFallback(dated))
             ELSE Returned(NoneValue)

\* MonthlyReportGenerator._extract_month_year
Monthly_extract_month_year(date_str) == ExtractMonthYear(date_str, TRUE)

\* EnhancedMonthlyReportGenerator._extract_month_year
Enhanced_extract_month_year(date_str) == ExtractMonthYear(date_str, TRUE)

\* PivotMonthlyReportGenerator._extract_month_year
Pivot_extract_month_year(date_str) == ExtractMonthYear(date_str, FALSE)

RECURSIVE AppendToGroup(_, _, _)
\* monthly_data[key].append(transaction) on the groups in insertion order
AppendToGroup(groups, key, transaction) ==
    IF groups = <<>> THEN <<[key |-> key, items |-> <<transaction>>]>>
    ELSE IF Head(groups).key = key
    THEN <<[key |-> key, items |-> Append(Head(groups).items, transaction)]>> \o Tail(groups)
    ELSE <<Head(groups)>> \o AppendToGroup(Tail(groups), key, transaction)

RECURSIVE OrganizeLoop(_, _, _)
OrganizeLoop(txs, monthly_data, fallback) ==
    IF txs = <<>> THEN Returned(monthly_data)
    ELSE LET month_year == ExtractMonthYear(Get(Head(txs), "date", ""), fallback)
         IN  IF month_year.raised THEN [raised |-> TRUE, val |-> <<>>]
             ELSE OrganizeLoop(Tail(txs),
                               AppendToGroup(monthly_data,
                                             IF Truthy(month_year.val) THEN month_year.val
                                             ELSE "Unknown",
                                             Head(txs)),
                               fallback)

\* organize_transactions_by_month dropping a transaction whose date does not parse
OrganizeDroppingUnknown(txs) ==
    OrganizeLoop(SelectSeq(txs, LAMBDA t : Truthy(ExtractMonthYear(Get(t, "date", ""), TRUE).val)),
                 <<>>, TRUE)

\* MonthlyReportGenerator.organize_transactions_by_month
organize_transactions_by_month(txs) == OrganizeLoop(txs, <<>>, TRUE)

\* EnhancedMonthlyReportGenerator.organize_transactions_by_month
Enhanced_organize_transactions_by_month(txs) == OrganizeLoop(txs, <<>>, TRUE)

(***************************************************************************)
(* The line extractors of PDFReader and EnhancedPDFReader.  A text is the  *)
(* sequence of its lines, text.split('\n').  A regular expression is the   *)
(* string of the source; MatchLength gives the length of its match at a    *)
(* position, 0 when it does not match there.                               *)
(***************************************************************************)
amount_pattern == "[-+]?\\$?\\d{1,3}(?:,\\d{3})*\\.?\\d{0,2}"

\* PDFReader's date_pattern
date_pattern == "\\b\\d{1,2}[/-]\\d{1,2}[/-]\\d{2,4}\\b"

iso_date_pattern == "\\b\\d{4}-\\d{2}-\\d{2}\\b"

month_name_date_pattern == "\\b\\d{1,2}\\s+\\w{3}\\s+\\d{4}\\b"

\* _parse_generic_statement's date_patterns
generic_date_patterns == <<date_pattern, iso_date_pattern, month_name_date_pattern>>

\* \b before the character at i
WordBoundary(s, i) ==
    (i > 1 /\ IsWordChar(Char(s, i - 1))) # (i <= Len(s) /\ IsWordChar(Char(s, i)))

RECURSIVE DigitRun(_, _, _)
\* the digits \d{0,most} takes at i
DigitRun(s, i, most) ==
    IF most > 0 /\ i <= Len(s) /\ IsDigit(Char(s, i)) THEN 1 + DigitRun(s, i + 1, most - 1)
    ELSE 0

RECURSIVE SpaceRun(_, _)
\* the characters \s+ takes at i
SpaceRun(s, i) ==
    IF i <= Len(s) /\ IsSpace(Char(s, i)) THEN 1 + SpaceRun(s, i + 1) ELSE 0

RECURSIVE AfterCommaGroups(_, _)
\* the position after (?:,\d{3})* at i
AfterCommaGroups(s, i) ==
    IF i <= Len(s) /\ Char(s, i) = "," /\ DigitsAt(s, i + 1, 3)
    THEN AfterCommaGroups(s, i + 4)
    ELSE i

\* amount_pattern at i: every part after \d{1,3} is optional, so the greedy
\* choice is the match
AmountMatchLength(s, i) ==
    LET a == IF Char(s, i) \in {"-", "+"} THEN i + 1 ELSE i
        b == IF a <= Len(s) /\ Char(s, a) = "$" THEN a + 1 ELSE a
        c == b + DigitRun(s, b, 3)
        d == AfterCommaGroups(s, c)
        e == IF d <= Len(s) /\ Char(s, d) = "." THEN d + 1 ELSE d
    IN  IF c = b THEN 0 ELSE e + DigitRun(s, e, 2) - i

\* date_pattern at i
DateMatchLength(s, i) ==
    LET widths == {w \in (1..2) \X (1..2) \X (2..4) :
                      /\ MatchesAt(s, i, w)
                      /\ WordBoundary(s, i + w[1] + w[2] + w[3] + 2)}
    IN  IF ~WordBoundary(s, i) \/ widths = {} THEN 0
        ELSE LET w == CHOOSE w \in widths :
                          \A q \in widths :
                              \/ w[1] > q[1]
                              \/ w[1] = q[1] /\ w[2] > q[2]
                              \/ w[1] = q[1] /\ w[2] = q[2] /\ w[3] >= q[3]
             IN  w[1] + w[2] + w[3] + 2

\* iso_date_pattern at i
IsoDateMatchLength(s, i) ==
    IF /\ WordBoundary(s, i)
       /\ DigitsAt(s, i, 4) /\ At(s, i + 4, "-")
       /\ DigitsAt(s, i + 5, 2) /\ At(s, i + 7, "-")
       /\ DigitsAt(s, i + 8, 2)
       /\ WordBoundary(s, i + 10)
    THEN 10 ELSE 0

\* month_name_date_pattern at i
MonthNameDateMatchLength(s, i) ==
    LET day == IF DigitsAt(s, i, 2) /\ SpaceRun(s, i + 2) > 0 THEN 2
               ELSE IF DigitsAt(s, i, 1) /\ SpaceRun(s, i + 1) > 0 THEN 1
               ELSE 0
        name == i + day + SpaceRun(s, i + day)
        year == name + 3 + SpaceRun(s, name + 3)
    IN  IF /\ WordBoundary(s, i)
           /\ day > 0
           /\ name + 2 <= Len(s)
           /\ \A k \in name..(name + 2) : IsWordChar(Char(s, k))
           /\ SpaceRun(s, name + 3) > 0
           /\ DigitsAt(s, year, 4)
           /\ WordBoundary(s, year + 4)
        THEN year + 4 - i ELSE 0

MatchLength(pattern, s, i) ==
    CASE pattern = amount_pattern -> AmountMatchLength(s, i)
      [] pattern = date_pattern -> DateMatchLength(s, i)
      [] pattern = iso_date_pattern -> IsoDateMatchLength(s, i)
      [] pattern = month_name_date_pattern -> MonthNameDateMatchLength(s, i)

RECURSIVE FindAllFrom(_, _, _)
FindAllFrom(pattern, s, i) ==
    IF i > Len(s) THEN <<>>
    ELSE LET n == MatchLength(pattern, s, i)
         IN  IF n > 0
             THEN <<SubSeq(s, i, i + n - 1)>> \o FindAllFrom(pattern, s, i + n)
             ELSE FindAllFrom(pattern, s, i + 1)

\* re.findall(pattern, s): the matches from left to right, none overlapping
findall(pattern, s) == FindAllFrom(pattern, s, 1)

RECURSIVE FindAllOfEach(_, _)
\* dates_found after the loop over the patterns
FindAllOfEach(patterns, s) ==
    IF patterns = <<>> THEN <<>>
    ELSE findall(Head(patterns), s) \o FindAllOfEach(Tail(patterns), s)

\* the body of `for line in lines`: the transactions the line adds
ParseLine(raw, patterns) ==
    LET line == Strip(raw)
        dates_found == FindAllOfEach(patterns, line)
        amounts == findall(amount_pattern, line)
    IN  IF line = "" \/ dates_found = <<>> \/ amounts = <<>> THEN <<>>
        ELSE << [date |-> dates_found[1], description |-> line,
                 amount |-> RawStr(amounts[Len(amounts)]), raw_line |-> line] >>

\* the words detect_bank_type looks for in the lowered text
bank_words ==
    { "jpmorgan chase", "chase bank", "bank of america", "boa", "wells fargo",
      "citibank", "citi", "capital one" }

\* those of them a line holds
BankWordsIn(line) == {k \in bank_words : Contains(StrLower(line), k)}

(***************************************************************************)
(* The Chase parser of EnhancedPDFReader.  The regular expressions of      *)
(* _parse_chase_transaction_line and _parse_chase_line_by_line are built   *)
(* from a date of two or three groups of digits and an amount with its     *)
(* two decimals; a match that is not there is the empty string.            *)
(***************************************************************************)
chase_headers ==
    << "checking account activity", "transaction", "deposits and other credits",
       "checks paid", "electronic withdrawals" >>

chase_footers == <<"summary", "balance", "fees", "interest">>

chase_transaction_keywords == <<"transaction", "deposit", "withdrawal", "check">>

\* any(keyword in line.lower() for keyword in words)
AnyIn(words, line) == \E n \in 1..Len(words) : Contains(StrLower(line), words[n])

\* the digits \d{1,2} takes at i when "/" has to follow
DigitsBeforeSlash(s, i) ==
    IF DigitsAt(s, i, 2) /\ At(s, i + 2, "/") THEN 2
    ELSE IF DigitsAt(s, i, 1) /\ At(s, i + 1, "/") THEN 1
    ELSE 0

\* \d{1,2}/\d{1,2} at i
ShortDateLength(s, i) ==
    LET d1 == DigitsBeforeSlash(s, i)
        d2 == DigitRun(s, i + d1 + 1, 2)
    IN  IF d1 > 0 /\ d2 > 0 THEN d1 + 1 + d2 ELSE 0

\* \d{1,2}/\d{1,2}/\d{2,4} at i
LongDateLength(s, i) ==
    LET d1 == DigitsBeforeSlash(s, i)
        d2 == DigitsBeforeSlash(s, i + d1 + 1)
        d3 == DigitRun(s, i + d1 + d2 + 2, 4)
    IN  IF d1 > 0 /\ d2 > 0 /\ d3 >= 2 THEN d1 + d2 + d3 + 2 ELSE 0

\* [-+]?\$?\d{1,3}(?:,\d{3})*\.\d{2} at i: the point and the two decimals
\* have to follow the digits, so no shorter choice of digits matches
ChaseAmountLength(s, i) ==
    LET a == IF i <= Len(s) /\ Char(s, i) \in {"-", "+"} THEN i + 1 ELSE i
        b == IF a <= Len(s) /\ Char(s, a) = "$" THEN a + 1 ELSE a
        c == b + DigitRun(s, b, 3)
        d == AfterCommaGroups(s, c)
    IN  IF c > b /\ At(s, d, ".") /\ DigitsAt(s, d + 1, 2) THEN d + 3 - i ELSE 0

\* s from i, of length n
Matched_(s, i, n) == SubSeq(s, i, i + n - 1)

\* the first of date_patterns that re.search finds in the line, group 1
ChaseDateMatch(line) ==
    LET long  == {i \in 1..Len(line) : LongDateLength(line, i) > 0}
        short == {i \in 1..Len(line) :
                     /\ ShortDateLength(line, i) > 0
                     /\ i + ShortDateLength(line, i) <= Len(line)
                     /\ IsSpace(Char(line, i + ShortDateLength(line, i)))}
    IN  IF LongDateLength(line, 1) > 0 THEN Matched_(line, 1, LongDateLength(line, 1))
        ELSE IF ShortDateLength(line, 1) > 0 THEN Matched_(line, 1, ShortDateLength(line, 1))
        ELSE IF long # {} THEN Matched_(line, First(long), LongDateLength(line, First(long)))
        ELSE IF short # {} THEN Matched_(line, First(short), ShortDateLength(line, First(short)))
        ELSE ""

\* the first of amount_patterns that re.search finds in the line, group 1:
\* an amount at the end, an amount before the spaces at the end, an amount
\* between two spaces; the fourth pattern matches only where the first does
ChaseAmountMatch(line) ==
    LET atEnd    == {i \in 1..Len(line) :
                        /\ ChaseAmountLength(line, i) > 0
                        /\ i + ChaseAmountLength(line, i) - 1 = Len(line)}
        atSpaces == {i \in 1..Len(line) :
                        /\ ChaseAmountLength(line, i) > 0
                        /\ i + ChaseAmountLength(line, i)
                             + SpaceRun(line, i + ChaseAmountLength(line, i)) - 1 = Len(line)}
        between  == {i \in 2..Len(line) :
                        /\ IsSpace(Char(line, i - 1))
                        /\ ChaseAmountLength(line, i) > 0
                        /\ i + ChaseAmountLength(line, i) <= Len(line)
                        /\ IsSpace(Char(line, i + ChaseAmountLength(line, i)))}
    IN  IF atEnd # {} THEN Matched_(line, First(atEnd), ChaseAmountLength(line, First(atEnd)))
        ELSE IF atSpaces # {}
        THEN Matched_(line, First(atSpaces), ChaseAmountLength(line, First(atSpaces)))
        ELSE IF between # {}
        THEN Matched_(line, First(between), ChaseAmountLength(line, First(between)))
        ELSE ""

RECURSIVE RemoveAll(_, _)
\* s.replace(k, '') for a k that is not empty
RemoveAll(s, k) ==
    IF Len(s) < Len(k) THEN s
    ELSE IF At(s, 1, k) THEN RemoveAll(SubSeq(s, Len(k) + 1, Len(s)), k)
    ELSE Char(s, 1) \o RemoveAll(SubSeq(s, 2, Len(s)), k)

\* line.split(date_match, 1)[-1].strip() without the amount, or the line
ChaseDescription(line, date_match, amount_match) ==
    LET after == Strip(SubSeq(line, Find(line, date_match, 1) + Len(date_match), Len(line)))
        description == IF Contains(after, amount_match)
                       THEN Strip(RemoveAll(after, amount_match))
                       ELSE after
    IN  IF description # "" THEN description ELSE line

\* EnhancedPDFReader._parse_chase_transaction_line on a stripped line: the
\* transaction in a list, or the empty list for None
_parse_chase_transaction_line(line) ==
    TheOne({ IF date_match # "" /\ amount_match # ""
             THEN << [date |-> date_match,
                      description |-> ChaseDescription(line, date_match, amount_match),
                      amount |-> RawStr(amount_match), raw_line |-> line] >>
             ELSE <<>> :
             date_match \in {ChaseDateMatch(line)},
             amount_match \in {ChaseAmountMatch(line)} })

\* the amount reaches from a to the end of the line
FullAmountAt(s, a) ==
    ChaseAmountLength(s, a) > 0 /\ a + ChaseAmountLength(s, a) - 1 = Len(s)

\* ^(date)\s+(.+?)\s+(amount)$ with the date of length n at the start:
\* <<date, description, amount>>, or <<>> when the line does not match.
\* \s+ takes v of the spaces after the date, the most it can; the
\* description is the shortest text after them that spaces and an amount
\* reaching the end of the line follow
DatedLine(line, n) ==
    LET p == n + 1
        ends(v) == {r \in (p + v + 1)..Len(line) :
                       /\ IsSpace(Char(line, r))
                       /\ FullAmountAt(line, r + SpaceRun(line, r))}
        vs == {v \in 1..SpaceRun(line, p) : ends(v) # {}}
    IN  IF n = 0 \/ vs = {} THEN <<>>
        ELSE TheOne({ << SubSeq(line, 1, n), SubSeq(line, p + Last(vs), r - 1),
                         SubSeq(line, r + SpaceRun(line, r), Len(line)) >> :
                      r \in {First(ends(Last(vs)))} })

\* the date of three groups of digits, or of two
DateLength(s, i, long) == IF long THEN LongDateLength(s, i) ELSE ShortDateLength(s, i)

\* .*(date).*\s+(amount)$: <<date, amount>>, or <<>> when the line does not
\* match.  The first .* takes the most it can, so the date is the last one
\* that ends before the space in front of the amount
AnywhereLine(line, long) ==
    LET amounts == {a \in 2..Len(line) : IsSpace(Char(line, a - 1)) /\ FullAmountAt(line, a)}
        dates(a) == {i \in 1..Len(line) :
                        DateLength(line, i, long) > 0 /\ i + DateLength(line, i, long) <= a - 1}
    IN  IF amounts = {} THEN <<>>
        ELSE IF dates(Last(amounts)) = {} THEN <<>>
        ELSE TheOne({ << Matched_(line, i, DateLength(line, i, long)), SubSeq(line, a, Len(line)) >> :
                      a \in {Last(amounts)}, i \in {Last(dates(Last(amounts)))} })

\* the body of the loop of _parse_chase_line_by_line: the transactions the
\* line adds
ChaseLineByLine(raw) ==
    LET line == Strip(raw)
        Of(groups) ==
            IF Len(groups) = 3
            THEN << [date |-> groups[1], description |-> groups[2],
                     amount |-> RawStr(groups[3]), raw_line |-> line] >>
            ELSE << [date |-> groups[1],
                     description |-> Strip(RemoveAll(RemoveAll(line, groups[1]), groups[2])),
                     amount |-> RawStr(groups[2]), raw_line |-> line] >>
    IN  IF line = "" \/ Len(line) < 10 THEN <<>>
        ELSE IF DatedLine(line, LongDateLength(line, 1)) # <<>>
        THEN Of(DatedLine(line, LongDateLength(line, 1)))
        ELSE IF DatedLine(line, ShortDateLength(line, 1)) # <<>>
        THEN Of(DatedLine(line, ShortDateLength(line, 1)))
        ELSE IF AnywhereLine(line, TRUE) # <<>>
        THEN Of(AnywhereLine(line, TRUE))
        ELSE IF AnywhereLine(line, FALSE) # <<>>
        THEN Of(AnywhereLine(line, FALSE))
        ELSE <<>>

(***************************************************************************)
(* Inputs of the classifier                                                *)
(***************************************************************************)
\* longest batch handed to classify_transactions
MaxBatch == 2

DescriptionWords ==
    { "DIRECT DEPOSIT PAYROLL", "STARBUCKS STORE", "ATM WITHDRAWAL", "MOBILE DEPOSIT",
      "SERVICE FEE", "INTEREST", "EARNED", "coffee", "gas bill", "+", "CHECK 12",
      "add", "credit", "WALMART STORE PIZZA CAFE RENT GAS" }

Descriptions ==
    {"", " "} \cup DescriptionWords
    \cup {a \o " " \o b : a \in DescriptionWords, b \in DescriptionWords}

ClassifierAmounts ==
    { RawStr("2500.00"), RawStr("-85.43"), RawStr("0.00"), RawStr("garbage"),
      RawStr("-85.4321"), RawNum(Num(-575, 100)), RawNum(Zero), RawNum(Num(100, 1)),
      RawNone }

\* the dicts of the accuracy test: a description and an amount only; "WAGES
\* STORE" holds one income keyword, one expense keyword and no pattern
BareTransactions ==
    {[description |-> d, amount |-> a] : d \in Descriptions, a \in ClassifierAmounts}
    \cup {[description |-> NoneValue, amount |-> RawNum(Zero)]}
    \cup {[amount |-> a] : a \in ClassifierAmounts}
    \cup {[description |-> d] : d \in DescriptionWords}
    \cup {[description |-> "WAGES STORE", amount |-> a] : a \in ClassifierAmounts}

Full(date, d, a, c, f) ==
    [date |-> date, description |-> d, amount |-> a, category |-> c, source_file |-> f]

\* categorized transactions carrying every field
FullTransactions ==
    { Full("01/15/2024", "DIRECT DEPOSIT PAYROLL", RawStr("-2500.00"), "Income", "a.pdf"),
      Full("02/01/2024", "DIRECT DEPOSIT PAYROLL", RawStr("-2500.00"), "Shopping", "b.pdf"),
      Full("01/16/2024", "STARBUCKS STORE", RawNum(Num(575, 100)), "Food & Dining", "a.pdf"),
      Full("garbage", "coffee", RawStr("0.00"), "Uncategorized", "b.pdf"),
      Full("01/18/2024", "ATM WITHDRAWAL", RawStr("100.00"), "Banking & Finance", "a.pdf"),
      Full("1/17", "GROCERY", RawStr("-85.4321"), "Shopping", "a.pdf") }

RECURSIVE SeqsUpTo(_, _)
\* the sequences over S of length at most n
SeqsUpTo(S, n) ==
    IF n = 0 THEN {<<>>}
    ELSE LET shorter == SeqsUpTo(S, n - 1)
         IN  shorter \cup {Append(q, x) : q \in shorter, x \in S}

Batches == {<<t>> : t \in BareTransactions} \cup SeqsUpTo(FullTransactions, MaxBatch)

(***************************************************************************)
(* Inputs of the keyword matcher                                           *)
(***************************************************************************)
\* longest batch handed to batch_categorize
MaxMatchBatch == 2

\* the fuzzy keyword of the first category and the exact keyword of the
\* second both match "starbucks coffee"
TierOrderTable ==
    << DictEntry("Coffee", <<>>, <<"starbuck coffee">>, <<>>),
       DictEntry("Food", <<"starbucks">>, <<>>, <<>>) >>

\* the list format
LegacyTable ==
    << ListEntry("Shopping", <<"Amazon", "walmart">>), ListEntry("Dining", <<"cafe">>) >>

RegexTable ==
    << DictEntry("Broken", <<>>, <<>>, <<"[">>),
       DictEntry("Cash", <<>>, <<>>, <<"[", "ATM.*withdrawal">>),
       DictEntry("Fuel", <<>>, <<"shell gas">>, <<".*gas.*station.*">>) >>

FuzzyTable ==
    << DictEntry("Video", <<>>, <<"netflix">>, <<>>),
       DictEntry("Streaming", <<>>, <<"netflix.com", "netflix">>, <<>>),
       DictEntry("Stores", <<"walmart">>, <<"walmart">>, <<"wal">>) >>

KeywordTables == {TierOrderTable, LegacyTable, RegexTable, FuzzyTable, KeywordsTemplate}

ConfigFiles ==
    {MissingFile, InvalidJsonFile, JsonFile(TierOrderTable), JsonFile(LegacyTable)}

MatchDescriptions ==
    { "STARBUCKS COFFEE", "  Starbucks Coffee ", "starbuck", "AMAZON PRIME", "Walmrt",
      "ATM WITHDRAWAL 12", "shell gaz", "netflix.co", "NETFLIX", "xyz", "", "cafe rio",
      "parking garage", "gas station", "dinin", "utilty", "SHELL GAS STATION" }

MatchTransactions ==
    { [date |-> "01/15/2024", description |-> "STARBUCKS COFFEE", amount |-> RawStr("-5.75")],
      [date |-> "01/16/2024", description |-> "xyz", amount |-> RawNum(Num(100, 1))],
      [date |-> "01/17/2024", amount |-> RawStr("12.00")],
      [date |-> "01/18/2024", description |-> NoneValue, amount |-> RawNone],
      [date |-> "01/19/2024", description |-> "ATM WITHDRAWAL 12", amount |-> RawStr("$1,000.00")],
      [date |-> "01/20/2024", description |-> "Walmrt", amount |-> RawStr("garbage")] }

MatchBatches == SeqsUpTo(MatchTransactions, MaxMatchBatch)

(***************************************************************************)
(* Inputs of the date normalisers.  A date is written from its parts, and  *)
(* the month key it denotes is computed from the parts, not from the text. *)
(***************************************************************************)
\* longest batch handed to organize_transactions_by_month
MaxOrganizeBatch == 3

\* <<as written, value>>
MonthParts == { <<"01", 1>>, <<"2", 2>>, <<"4", 4>>, <<"12", 12>>, <<"13", 13>> }

DayParts == { <<"5", 5>>, <<"15", 15>>, <<"29", 29>>, <<"30", 30>>, <<"31", 31>> }

YearParts == { <<"2024", 2024>>, <<"2023", 2023>>, <<"0000", 0>> }

DateForms == {"MM/DD/YYYY", "MM-DD-YYYY", "YYYY-MM-DD"}

Written(form, y, m, d) ==
    CASE form = "MM/DD/YYYY" -> m \o "/" \o d \o "/" \o y
      [] form = "MM-DD-YYYY" -> m \o "-" \o d \o "-" \o y
      [] form = "YYYY-MM-DD" -> y \o "-" \o m \o "-" \o d

DateCases ==
    { [text |-> Written(form, y[1], m[1], d[1]), year |-> y[2], month |-> m[2], day |-> d[2]] :
      form \in DateForms, y \in YearParts, m \in MonthParts, d \in DayParts }

\* the parts name a day of the calendar
CalendarDate(c) ==
    /\ c.year >= 1
    /\ c.month \in 1..12
    /\ c.day \in 1..DaysInMonth(c.year, c.month)

\* strings that hold no date pattern
NoDateStrings == {"N/A", "garbage", "Unknown", "20240115", "1/2024"}

OtherDates ==
    { "1/15", "12/31", "01/15/24", "15/01/2024", "Date: 01/15/2024", " 01/15/2024 ",
      "2024/01/15", "x 2024-01-15", "13/45/2024", "00/15/2024", "", NoneValue, NotAString }

\* <<as written, value>> of the two-digit years
ShortYearParts ==
    { <<"00", 0>>, <<"24", 24>>, <<"49", 49>>, <<"50", 50>>, <<"55", 55>>, <<"68", 68>>,
      <<"69", 69>>, <<"99", 99>> }

\* dates of January 15 with a two-digit year, whole strings and embedded ones
ShortYearCases ==
    { [text |-> before \o "01" \o sep \o "15" \o sep \o y[1], yy |-> y[2], month |-> 1] :
      before \in {"", "posted "}, sep \in {"/", "-"}, y \in ShortYearParts }

\* dates inside a longer string: the year of four digits last or first, and
\* the two other groups as written, <<first, second>>
EmbeddedCases ==
    { [text |-> "posted " \o (IF last THEN g[1] \o sep \o g[2] \o sep \o "2024"
                                       ELSE "2024" \o sep \o g[1] \o sep \o g[2]),
       year |-> 2024, first |-> DigitsToNat(g[1]), second |-> DigitsToNat(g[2])] :
      last \in BOOLEAN, sep \in {"/", "-"},
      g \in {<<"01", "15">>, <<"15", "01">>, <<"01", "02">>, <<"3", "7">>} }

DateInputs ==
    {c.text : c \in DateCases} \cup NoDateStrings \cup OtherDates
        \cup {c.text : c \in ShortYearCases} \cup {c.text : c \in EmbeddedCases}

OrganizeTransactions ==
    { [date |-> "01/15/2024", description |-> "STARBUCKS", amount |-> RawStr("-5.75")],
      [date |-> "2024-02-01", description |-> "PAYROLL", amount |-> RawStr("2500.00")],
      [date |-> "garbage", description |-> "ATM", amount |-> RawStr("-20.00")],
      [description |-> "NO DATE", amount |-> RawStr("-1.00")],
      [date |-> NoneValue, description |-> "NONE DATE", amount |-> RawStr("-2.00")],
      [date |-> NotAString, description |-> "INT DATE", amount |-> RawStr("-3.00")] }

OrganizeBatches == SeqsUpTo(OrganizeTransactions, MaxOrganizeBatch)

(***************************************************************************)
(* Inputs of the line extractors.  A transaction line is written from a    *)
(* date, a description and a signed dollar amount, and the amount it       *)
(* denotes is kept with it.                                                *)
(***************************************************************************)
\* most lines of a text
MaxLines == 2

LineDates == {"01/15/2024", "1/5/24", "01-18-2024"}

LineDescriptions ==
    { "STARBUCKS STORE #1234 SEATTLE WA", "AMAZON.COM AMZN.COM/BILL WA",
      "SHELL OIL 12345678 REDMOND WA", "DEPOSIT PAYROLL" }

\* <<as written, value>>
LineAmounts ==
    { <<"-$5.75", Num(-575, 100)>>, <<"-$29.99", Num(-2999, 100)>>,
      <<"-$45.20", Num(-4520, 100)>>, <<"+$2500.00", Num(250000, 100)>>,
      <<"-$67.89", Num(-6789, 100)>>, <<"$1,234.56", Num(123456, 100)>>,
      <<"+$12.50", Num(1250, 100)>>, <<"-$1,000", Num(-1000, 1)>>,
      <<"$999.99", Num(99999, 100)>> }

LineCases ==
    { [line |-> d \o " " \o w \o " " \o a[1], date |-> d, amount |-> a[2]] :
      d \in LineDates, w \in LineDescriptions, a \in LineAmounts }

\* the sample text of test_basic, a blank line, a bank's heading, and lines
\* dated in the forms only the generic parser knows
SampleLines ==
    { "    01/15/2024 STARBUCKS STORE #1234 SEATTLE WA -$5.75",
      "    01/16/2024 AMAZON.COM AMZN.COM/BILL WA -$29.99",
      "    01/17/2024 SHELL OIL 12345678 REDMOND WA -$45.20",
      "    01/18/2024 DEPOSIT PAYROLL +$2500.00",
      "    01/19/2024 WALMART SUPERCENTER #1234 -$67.89",
      "    ",
      "Bank of America Statement" }

OtherLines ==
    { "2024-01-15 COFFEE -$4.50", "15 Jan 2024 COFFEE -$4.50", "STATEMENT SUMMARY",
      "Beginning balance $1,000.00", "Paid 01/15/2024", "01/15/2024 OPENING", "" }

\* the statements handed to the whole pipeline: files of up to
\* MaxStatementLines of these lines
MaxStatementLines == 2

StatementLines ==
    { "    01/15/2024 STARBUCKS STORE #1234 SEATTLE WA -$5.75",
      "    01/17/2024 SHELL OIL 12345678 REDMOND WA -$45.20",
      "    01/18/2024 DEPOSIT PAYROLL +$2500.00" }

Statements ==
    [path : {"data/january.pdf", "statement.pdf"},
     exists : {TRUE},
     text : SeqsUpTo(StatementLines, MaxStatementLines)]

\* most files handed to one process_pdf_files call
MaxFiles == 3

\* a path with no file, a file no text comes out of, a file whose text holds
\* no transaction, and two statements
Documents ==
    { [path |-> "data/missing.pdf", exists |-> FALSE, text |-> <<>>],
      [path |-> "data/scan.pdf", exists |-> TRUE, text |-> <<>>],
      [path |-> "data/cover.pdf", exists |-> TRUE,
       text |-> <<"Bank of America Statement", "    ">>],
      [path |-> "data/january.pdf", exists |-> TRUE,
       text |-> << "    01/15/2024 STARBUCKS STORE #1234 SEATTLE WA -$5.75",
                   "    01/17/2024 SHELL OIL 12345678 REDMOND WA -$45.20" >>],
      [path |-> "uploads/february.pdf", exists |-> TRUE,
       text |-> << "    01/18/2024 DEPOSIT PAYROLL +$2500.00" >>] }

\* self.data_dir is there or not
DataDirs == {[exists |-> TRUE], [exists |-> FALSE]}

ExtractLines == {c.line : c \in LineCases} \cup SampleLines \cup OtherLines

ExtractTexts ==
    {<<line>> : line \in ExtractLines} \cup SeqsUpTo(SampleLines, MaxLines)

(***************************************************************************)
(* The state after construction: nothing has been handed to any component. *)
(***************************************************************************)
NoSummary == [total_income |-> Zero, total_expenses |-> Zero, net_amount |-> Zero,
              income_count |-> 0, expense_count |-> 0, income_avg |-> Zero,
              expense_avg |-> Zero]

AmountIdle == amountIn = RawNum(Zero) /\ amountOut = <<Returned(Zero), Returned(Zero)>>

ClassifierIdle ==
    /\ transactions = <<>>
    /\ classified = [raised |-> FALSE, out |-> <<>>]
    /\ summary = NoSummary

\* KeywordMatcher.__init__ without a path: self.keywords = {}
MatcherIdle ==
    /\ keywords = <<>>
    /\ configFile = MissingFile
    /\ matcherIn = NoneValue
    /\ matcherOut = Returned(NoneValue)

DateIdle == dateIn = NoneValue /\ dateOut = <<>>

ExtractIdle == extractIn = <<>> /\ extractOut = <<<<>>, <<>>>>

NoFile == [path |-> "", exists |-> FALSE, text |-> <<>>]

PipelineIdle == pipelineIn = NoFile /\ pipelineOut = [raised |-> FALSE, out |-> <<>>]

\* no batch_categorize call is in flight
NoBatch ==
    [pc |-> "idle", transactions |-> <<>>, description_lower |-> "", categorized |-> <<>>,
     tableAtStart |-> <<>>]

BatchIdle == batch = NoBatch

\* no _parse_chase_statement call is in flight
NoScan ==
    [pc |-> "idle", lines |-> <<>>, i |-> 0, in_transaction_section |-> FALSE,
     transactions |-> <<>>, section_lines |-> {}, states |-> <<>>,
     section_transactions |-> <<>>, line_by_line |-> FALSE]

ChaseIdle == chase = NoScan

\* no extract_text_from_pdf call is in flight
NoReading ==
    [pc |-> "idle", pdf |-> [pdfplumber |-> "", pypdf2 |-> ""], stack |-> <<>>,
     tried |-> <<>>, result |-> ""]

FilesIdle ==
    /\ filesIn = [data_dir |-> [exists |-> FALSE], pdf_files |-> <<>>]
    /\ filesOut = Returned(<<>>)
    /\ reading = NoReading

NoEvidence == [type |-> NoneValue, confidence |-> 0,
               reason |-> [kind |-> "", items |-> <<>>]]

CombineIdle ==
    /\ combineIn = [base_type |-> "expense", base_confidence |-> 30,
                    pattern_result |-> NoEvidence, keyword_result |-> NoEvidence]
    /\ combineOut = NoEvidence

Init ==
    /\ op = "init"
    /\ ClassifierIdle /\ AmountIdle /\ MatcherIdle /\ DateIdle /\ ExtractIdle
    /\ PipelineIdle /\ BatchIdle /\ ChaseIdle /\ FilesIdle /\ CombineIdle

(***************************************************************************)
(* The stages of the pipeline.  What a stage computes for one line, one    *)
(* description or one transaction is evaluated once, over the inputs.      *)
(***************************************************************************)
\* each line parsed with PDFReader's pattern, evaluated once
ParsedLine == [line \in ExtractLines |-> ParseLine(line, <<date_pattern>>)]

\* each line parsed with the generic patterns, evaluated once
GenericParsedLine == [line \in ExtractLines |-> ParseLine(line, generic_date_patterns)]

\* the bank words in each line, evaluated once
BankWords == [line \in ExtractLines |-> BankWordsIn(line)]

\* EnhancedPDFReader.detect_bank_type
detect_bank_type(text) ==
    TheOne({ IF "jpmorgan chase" \in in_text \/ "chase bank" \in in_text THEN "chase"
             ELSE IF "bank of america" \in in_text \/ "boa" \in in_text THEN "bofa"
             ELSE IF "wells fargo" \in in_text THEN "wells_fargo"
             ELSE IF "citibank" \in in_text \/ "citi" \in in_text THEN "citi"
             ELSE IF "capital one" \in in_text THEN "capital_one"
             ELSE "generic" :
             in_text \in {UNION {BankWords[text[n]] : n \in 1..Len(text)}} })

RECURSIVE ParsedLines(_, _)
\* the transactions of the lines of a text, in order
ParsedLines(text, parsed) ==
    IF text = <<>> THEN <<>>
    ELSE parsed[Head(text)] \o ParsedLines(Tail(text), parsed)

\* PDFReader.extract_transactions
extract_transactions(text) == ParsedLines(text, ParsedLine)

\* EnhancedPDFReader._parse_generic_statement
_parse_generic_statement(text) == ParsedLines(text, GenericParsedLine)

\* EnhancedPDFReader.extract_transactions on a text that is not Chase's:
\* _parse_bofa_statement and _parse_wells_fargo_statement call the generic parser
Enhanced_extract_transactions(text) ==
    TheOne({ IF bank_type = "bofa" THEN generic
             ELSE IF bank_type = "wells_fargo" THEN generic
             ELSE generic :
             bank_type \in {detect_bank_type(text)},
             generic \in {_parse_generic_statement(text)} })

\* the descriptions of the transactions extracted from the statements
StatementDescriptions ==
    {GenericParsedLine[line][1].description : line \in StatementLines}

\* match_transaction over the tables and the descriptions, evaluated once
MatchedCategory ==
    [kw \in KeywordTables \cup {<<>>} |->
        [d \in MatchDescriptions \cup StatementDescriptions \cup {NoneValue} |->
            match_transaction(kw, d)]]

\* KeywordMatcher.batch_categorize; the amount it converts is handed to
\* match_transaction, which does not read it
batch_categorize(kw, txs) ==
    TheOne({ IF \E i \in 1..Len(txs) : matched[i].raised
             THEN [raised |-> TRUE, val |-> <<>>]
             ELSE Returned([i \in 1..Len(txs) |->
                      Updated(txs[i],
                              [category |-> IF Truthy(matched[i].val) THEN matched[i].val
                                            ELSE "Uncategorized"])]) :
             matched \in {[i \in 1..Len(txs) |->
                              MatchedCategory[kw][Get(txs[i], "description", "")]]} })

RECURSIVE Basename(_)
\* os.path.basename: what follows the last "/"
Basename(path) ==
    IF \E i \in 1..Len(path) : Char(path, i) = "/"
    THEN Basename(SubSeq(path, 2, Len(path)))
    ELSE path

RECURSIVE ProcessFiles(_)
\* the loop of process_pdf_files over the given files: a path with no file
\* is skipped, and so is a file no text comes out of; the transactions of the
\* others are stamped with the file's name
ProcessFiles(pdf_files) ==
    IF pdf_files = <<>> THEN <<>>
    ELSE TheOne({ [i \in 1..Len(extracted) |->
                      Updated(extracted[i], [source_file |-> Basename(Head(pdf_files).path)])] :
                  extracted \in {IF ~Head(pdf_files).exists THEN <<>>
                                 ELSE IF Head(pdf_files).text = <<>> THEN <<>>
                                 ELSE Enhanced_extract_transactions(Head(pdf_files).text)} })
         \o ProcessFiles(Tail(pdf_files))

\* BankStatementAnalyzer.process_pdf_files; with no file given (None, or the
\* empty list, which `if pdf_files:` takes alike) it turns to the data
\* directory, and EnhancedPDFReader has no process_multiple_pdfs: the
\* AttributeError leaves the call
process_pdf_files(data_dir, pdf_files) ==
    IF pdf_files # <<>> THEN Returned(ProcessFiles(pdf_files))
    ELSE IF ~data_dir.exists THEN Returned(<<>>)
    ELSE [raised |-> TRUE, val |-> <<>>]

\* BankStatementAnalyzer.categorize_transactions; the statistics are logged only
categorize_transactions(kw, txs) == batch_categorize(kw, txs)

\* the categories of the keyword tables
Categories ==
    UNION {{kw[i].category : i \in 1..Len(kw)} : kw \in KeywordTables} \cup {"Uncategorized"}

\* the transactions of the statements as they reach the classifier, whichever
\* the keyword table
StatementTransactions ==
    { Updated(GenericParsedLine[line][1], [source_file |-> Basename(pdf_file.path), category |-> c]) :
      line \in StatementLines, pdf_file \in Statements, c \in Categories }

\* analyze_transaction over the transactions of the batches and of the
\* statements, evaluated once
\* the transactions of the matcher's batches as they reach the classifier,
\* whichever the keyword table
CategorizedTransactions ==
    { Updated(t, [category |-> c]) : t \in MatchTransactions, c \in Categories }

AnalyzedTransaction ==
    [t \in BareTransactions \cup FullTransactions \cup StatementTransactions
            \cup CategorizedTransactions |->
        analyze_transaction(t)]

\* IncomeExpenseAnalyzer.classify_transactions: [raised, out]
classify_transactions(txs) ==
    TheOne({ IF \E i \in 1..Len(txs) : analyzed[i].raised
             THEN [raised |-> TRUE, out |-> <<>>]
             ELSE [raised |-> FALSE,
                   out |-> [i \in 1..Len(txs) |->
                               Updated(txs[i],
                                       [transaction_type |-> analyzed[i].result.type,
                                        type_confidence  |-> analyzed[i].result.confidence,
                                        type_reason      |-> analyzed[i].result.reason])]] :
             analyzed \in {[i \in 1..Len(txs) |-> AnalyzedTransaction[txs[i]]]} })

\* run_analysis up to the categorization, then the classification with which
\* create_pivot_monthly_report and create_enhanced_monthly_report begin
run_analysis(kw, pdf_files) ==
    TheOne({ IF txs.raised \/ txs.val = <<>> THEN [raised |-> FALSE, out |-> <<>>]
             ELSE TheOne({ IF categorized_transactions.raised
                           THEN [raised |-> TRUE, out |-> <<>>]
                           ELSE classify_transactions(categorized_transactions.val) :
                           categorized_transactions \in
                               {categorize_transactions(kw, txs.val)} }) :
             txs \in {process_pdf_files([exists |-> TRUE], pdf_files)} })

(***************************************************************************)
(* The classifier as a state machine: the caller classifies a batch, then  *)
(* may ask for the summary of the classified batch.                         *)
(***************************************************************************)
\* the first call is handed any batch, a later call a batch of full records
ClassifyTransactions ==
    \E txs \in IF op = "init" THEN Batches ELSE SeqsUpTo(FullTransactions, MaxBatch) :
        /\ op' = "classify_transactions"
        /\ transactions' = txs
        /\ classified' = classify_transactions(txs)
        /\ summary' = NoSummary
        /\ UNCHANGED <<amountVars, matcherVars, dateVars, extractVars, pipelineVars,
                     batchVars, chaseVars, filesVars, combineVars>>

GetIncomeExpenseSummary ==
    /\ op = "classify_transactions"
    /\ ~classified.raised
    /\ op' = "get_income_expense_summary"
    /\ summary' = get_income_expense_summary(classified.out)
    /\ UNCHANGED <<transactions, classified, amountVars, matcherVars, dateVars, extractVars, pipelineVars,
                     batchVars, chaseVars, filesVars, combineVars>>

(***************************************************************************)
(* Inputs of the amount normalisers.  A well-formed amount is written from *)
(* its parts, and the value it denotes is computed from the parts, not     *)
(* from the text.                                                          *)
(***************************************************************************)
\* <<integer part as written, its value>>
IntegerParts ==
    { <<"1,234", 1234>>, <<"45", 45>>, <<"12", 12>>, <<"3", 3>>, <<"0", 0>>,
      <<"2500", 2500>>, <<"85", 85>> }

\* <<fraction as written, numerator, denominator>>
FractionParts ==
    { <<"", 0, 1>>, <<".56", 56, 100>>, <<".00", 0, 100>>, <<".50", 50, 100>>,
      <<".20", 20, 100>>, <<".5", 5, 10>>, <<".4321", 4321, 10000>> }

\* <<text before the digits, text after them, whether the amount is negative>>
AmountForms ==
    { <<"", "", FALSE>>, <<"$", "", FALSE>>, <<"-", "", TRUE>>, <<"+", "", FALSE>>,
      <<"-$", "", TRUE>>, <<"+$", "", FALSE>>, <<"$-", "", TRUE>>, <<"++", "", FALSE>>,
      <<"(", ")", TRUE>>, <<"($", ")", TRUE>>, <<"$(", ")", TRUE>>, <<" ", "  ", FALSE>> }

WellFormedAmounts ==
    { [text     |-> f[1] \o i[1] \o r[1] \o f[2],
       expected |-> Num((IF f[3] THEN -1 ELSE 1) * (i[2] * r[3] + r[2]), r[3])] :
      i \in IntegerParts, r \in FractionParts, f \in AmountForms }

\* strings no rule turns into a decimal
MalformedAmounts ==
    { "", "abc", "N/A", "garbage", "1.2.3", "(-45.00)", "--5", "$", "()", "12abc",
      "(45.00", "4 5", "-", "+", ".", "None" }

AmountCases ==
    WellFormedAmounts \cup {[text |-> m, expected |-> Zero] : m \in MalformedAmounts}

NumericAmounts == {Num(-575, 100), Zero, Num(100, 1), Num(854321, 10000), Num(2500, 1)}

AmountInputs ==
    {RawStr(c.text) : c \in AmountCases} \cup {RawNum(v) : v \in NumericAmounts} \cup {RawNone}

\* a caller normalises one raw amount with each normaliser
CleanAmount ==
    /\ op \in {"init", "clean_amount"}
    /\ \E raw \in AmountInputs :
          /\ op' = "clean_amount"
          /\ amountIn' = raw
          /\ amountOut' = <<_clean_amount(raw), clean_amount(raw)>>
    /\ UNCHANGED <<classifierVars, matcherVars, dateVars, extractVars, pipelineVars,
                     batchVars, chaseVars, filesVars, combineVars>>

ClassifyNext == ClassifyTransactions \/ GetIncomeExpenseSummary

SpecClassify == Init /\ [][ClassifyNext]_vars

(***************************************************************************)
(* Claims about the classifier                                             *)
(***************************************************************************)
\* the description as analyze_transaction reads it
Lowered(t) == Strip(StrLower(Get(t, "description", "")))

StrongIncome(t) == \E i \in 1..Len(income_patterns) : IncomePatternSearch(i, Lowered(t))

StrongExpense(t) == \E i \in 1..Len(expense_patterns) : ExpensePatternSearch(i, Lowered(t))

AmountOf(t) == _clean_amount(Get(t, "amount", RawNum(Zero))).val

ClassifiedNow == op = "classify_transactions" /\ ~classified.raised

\* C1: a transaction whose lower-cased description matches a strong income
\* regex is classified income with confidence >= 0.9 whatever its amount; one
\* that matches a strong expense regex and no strong income regex is
\* classified expense with confidence 0.9 whatever its amount.
C1_StrongPatternDecides ==
    ClassifiedNow =>
        \A i \in 1..Len(classified.out) :
            LET t == classified.out[i]
            IN  /\ StrongIncome(t) =>
                       t.transaction_type = "income" /\ t.type_confidence >= 90
                /\ (StrongExpense(t) /\ ~StrongIncome(t)) =>
                       t.transaction_type = "expense" /\ t.type_confidence = 90

\* a batch holding "DIRECT DEPOSIT PAYROLL" with a negative amount, classified
\* income, and "ATM WITHDRAWAL" with a positive amount, classified expense
C1_Witness ==
    /\ ClassifiedNow
    /\ \E i \in 1..Len(classified.out) :
          /\ Get(classified.out[i], "description", "") = "DIRECT DEPOSIT PAYROLL"
          /\ AmountOf(classified.out[i]).num < 0
          /\ classified.out[i].transaction_type = "income"
          /\ classified.out[i].type_confidence = 90
    /\ \E i \in 1..Len(classified.out) :
          /\ Get(classified.out[i], "description", "") = "ATM WITHDRAWAL"
          /\ AmountOf(classified.out[i]).num > 0
          /\ classified.out[i].transaction_type = "expense"
          /\ classified.out[i].type_confidence = 90

\* C3: every transaction classify_transactions returns carries a
\* type_confidence within [0.0, 1.0] and a transaction_type that is "income"
\* or "expense", whatever its description and amount.
C3_ConfidenceBounds ==
    ClassifiedNow =>
        /\ Len(classified.out) = Len(transactions)
        /\ \A i \in 1..Len(classified.out) :
              /\ {"transaction_type", "type_confidence"} \subseteq DOMAIN classified.out[i]
              /\ classified.out[i].type_confidence >= 0
              /\ classified.out[i].type_confidence <= 100
              /\ classified.out[i].transaction_type \in {"income", "expense"}

\* a transaction with six expense keywords, where the cap of 0.8 acts, and a
\* malformed amount classified at the weak default
C3_Witness ==
    /\ ClassifiedNow
    /\ Len(classified.out) = 1
    /\ Get(classified.out[1], "description", "") = "WALMART STORE PIZZA CAFE RENT GAS"
    /\ Get(classified.out[1], "amount", RawNone) = RawStr("garbage")
    /\ classified.out[1].type_confidence = 80

\* the keywords of each side that occur in the description
IncomeHits(t) == Len(Matched(income_keywords, "income", Lowered(t)))

ExpenseHits(t) == Len(Matched(expense_keywords, "expense", Lowered(t)))

NoStrongPattern(t) == ~StrongIncome(t) /\ ~StrongExpense(t)

\* C14: a transaction that matches no strong regex and has as many income as
\* expense keywords in its description is classified by the sign of its
\* amount: positive is income at 0.6, negative is expense at 0.6, and zero,
\* which an unparseable amount becomes, is expense at 0.3.
C14_AmountBaseline ==
    ClassifiedNow =>
        \A i \in 1..Len(classified.out) :
            LET t == classified.out[i]
            IN  (NoStrongPattern(t) /\ IncomeHits(t) = ExpenseHits(t)) =>
                    /\ AmountOf(t).num > 0 =>
                           t.transaction_type = "income" /\ t.type_confidence = 60
                    /\ AmountOf(t).num < 0 =>
                           t.transaction_type = "expense" /\ t.type_confidence = 60
                    /\ AmountOf(t).num = 0 =>
                           t.transaction_type = "expense" /\ t.type_confidence = 30

\* a transaction without a strong regex, with one keyword of each side and
\* an amount that does not parse, classified expense at 0.3
C14_Witness ==
    /\ ClassifiedNow
    /\ Len(classified.out) = 1
    /\ NoStrongPattern(classified.out[1])
    /\ IncomeHits(classified.out[1]) = 1 /\ ExpenseHits(classified.out[1]) = 1
    /\ Get(classified.out[1], "amount", RawNone) = RawStr("garbage")
    /\ classified.out[1].transaction_type = "expense"
    /\ classified.out[1].type_confidence = 30

\* C15: a transaction that matches no strong regex and has more keywords of
\* one side than of the other is classified as that side with confidence
\* min(0.8, 0.5 + 0.1 * margin), whatever the sign of its amount: a positive
\* "STARBUCKS STORE" is an expense at 0.7.  A transaction that matches a
\* strong regex carries the regex's type, confidence 0.9 and reason, whatever
\* its keywords.
C15_KeywordMargin ==
    ClassifiedNow =>
        \A i \in 1..Len(classified.out) :
            LET t == classified.out[i]
                margin == IF IncomeHits(t) > ExpenseHits(t)
                          THEN IncomeHits(t) - ExpenseHits(t)
                          ELSE ExpenseHits(t) - IncomeHits(t)
            IN  /\ (NoStrongPattern(t) /\ IncomeHits(t) > ExpenseHits(t)) =>
                       /\ t.transaction_type = "income"
                       /\ t.type_confidence = Min(80, 50 + 10 * margin)
                /\ (NoStrongPattern(t) /\ ExpenseHits(t) > IncomeHits(t)) =>
                       /\ t.transaction_type = "expense"
                       /\ t.type_confidence = Min(80, 50 + 10 * margin)
                /\ (Get(t, "description", "") = "STARBUCKS STORE" /\ AmountOf(t).num > 0) =>
                       t.transaction_type = "expense" /\ t.type_confidence = 70
                /\ ~NoStrongPattern(t) =>
                       /\ t.type_reason.kind \in {"Income pattern", "Expense pattern"}
                       /\ t.type_confidence = 90
                       /\ t.transaction_type =
                              IF StrongIncome(t) THEN "income" ELSE "expense"

\* a positive "STARBUCKS STORE", with two expense keywords and no income
\* keyword, classified expense at 0.7
C15_Witness ==
    /\ ClassifiedNow
    /\ \E i \in 1..Len(classified.out) :
          /\ Get(classified.out[i], "description", "") = "STARBUCKS STORE"
          /\ NoStrongPattern(classified.out[i])
          /\ ExpenseHits(classified.out[i]) = 2 /\ IncomeHits(classified.out[i]) = 0
          /\ AmountOf(classified.out[i]).num > 0
          /\ classified.out[i].transaction_type = "expense"
          /\ classified.out[i].type_confidence = 70

\* C26: the confidence analyze_transaction returns is 0.3, 0.6, 0.7, 0.8 or
\* 0.9: 0.9 exactly when a strong regex matched, 0.3 only for a zero amount
\* with no regex match and as many income as expense keywords, and 0.6 to 0.8
\* otherwise; the keyword result of a description is empty or has a
\* confidence of at least 0.6, so the amount-based confidence is never
\* lowered to 0.4 by keywords of the other side.
C26_ConfidenceLevels ==
    ClassifiedNow =>
        \A i \in 1..Len(classified.out) :
            LET t == classified.out[i]
            IN  /\ t.type_confidence \in {30, 60, 70, 80, 90}
                /\ t.type_confidence = 90 <=> ~NoStrongPattern(t)
                /\ t.type_confidence = 30 =>
                       /\ AmountOf(t).num = 0
                       /\ NoStrongPattern(t)
                       /\ IncomeHits(t) = ExpenseHits(t)
                /\ t.type_reason.kind # "Amount-based but"

\* a positive amount whose description holds one expense keyword more than
\* income keywords and no strong regex: the keywords decide at 0.6
C26_Witness ==
    /\ ClassifiedNow
    /\ \E i \in 1..Len(classified.out) :
          /\ NoStrongPattern(classified.out[i])
          /\ ExpenseHits(classified.out[i]) = IncomeHits(classified.out[i]) + 1
          /\ AmountOf(classified.out[i]).num > 0
          /\ classified.out[i].transaction_type = "expense"
          /\ classified.out[i].type_confidence = 60
          /\ classified.out[i].type_reason.kind = "Keywords"

AmountNext == CleanAmount

SpecAmount == Init /\ [][AmountNext]_vars

C5_AtMostTwoDecimals ==
    /\ op = "clean_amount" => AtMostTwoDecimals(amountOut[1].val)
    /\ op = "get_income_expense_summary" =>
          /\ AtMostTwoDecimals(summary.total_income)
          /\ AtMostTwoDecimals(summary.total_expenses)
          /\ AtMostTwoDecimals(summary.net_amount)
          /\ AtMostTwoDecimals(summary.income_avg)
          /\ AtMostTwoDecimals(summary.expense_avg)

(***************************************************************************)
(* The keyword matcher as a state machine: the caller sets or loads the    *)
(* keyword table and categorizes descriptions and batches.                 *)
(***************************************************************************)
SetKeywords ==
    \E table \in KeywordTables :
        /\ op' = "set_keywords"
        /\ keywords' = table
        /\ matcherIn' = NoneValue
        /\ matcherOut' = Returned(NoneValue)
        /\ UNCHANGED <<configFile, classifierVars, amountVars, dateVars, extractVars, pipelineVars,
                     batchVars, chaseVars, filesVars, combineVars>>

\* load_keywords on a path that holds `file`
LoadKeywords ==
    \E file \in ConfigFiles :
        /\ op' = "load_keywords"
        /\ configFile' = file
        /\ keywords' = load_keywords(file)
        /\ matcherIn' = file
        /\ matcherOut' = Returned(NoneValue)
        /\ UNCHANGED <<classifierVars, amountVars, dateVars, extractVars, pipelineVars,
                     batchVars, chaseVars, filesVars, combineVars>>

\* BankStatementAnalyzer._load_configuration on a directory whose keywords.json is `file`
LoadConfiguration ==
    \E file \in ConfigFiles, writable \in BOOLEAN :
        LET found == IF file.state # "missing" THEN file
                     ELSE export_keywords_template(file, writable)
        IN  /\ op' = "_load_configuration"
            /\ configFile' = found
            /\ keywords' = load_keywords(found)
            /\ matcherIn' = file
            /\ matcherOut' = Returned(NoneValue)
            /\ UNCHANGED <<classifierVars, amountVars, dateVars, extractVars, pipelineVars,
                     batchVars, chaseVars, filesVars, combineVars>>

MatchTransaction ==
    \E description \in MatchDescriptions :
        /\ op' = "match_transaction"
        /\ matcherIn' = description
        /\ matcherOut' = MatchedCategory[keywords][description]
        /\ UNCHANGED <<keywords, configFile, classifierVars, amountVars, dateVars, extractVars, pipelineVars,
                     batchVars, chaseVars, filesVars, combineVars>>

BatchCategorize ==
    \E txs \in MatchBatches :
        /\ op' = "batch_categorize"
        /\ matcherIn' = txs
        /\ matcherOut' = batch_categorize(keywords, txs)
        /\ UNCHANGED <<keywords, configFile, classifierVars, amountVars, dateVars, extractVars, pipelineVars,
                     batchVars, chaseVars, filesVars, combineVars>>

MatchNext ==
    \/ SetKeywords
    \/ LoadKeywords
    \/ LoadConfiguration
    \/ MatchTransaction
    \/ BatchCategorize

SpecMatch == Init /\ [][MatchNext]_vars

(***************************************************************************)
(* Claims about the keyword matcher                                        *)
(***************************************************************************)
\* C29: a load_keywords call that fails, the file missing or not JSON, leaves
\* the keyword table that was in use in place: the table is always the one
\* of the last successful load_keywords or set_keywords call.
C29_FailedLoadKeepsTable ==
    [][(op' = "load_keywords" /\ configFile'.state # "valid") => keywords' = keywords]_vars

\* the description as the tiers read it
Folded(description) == Strip(StrLower(description))

\* the categories, by position in the table, that a tier matches
ExactHits(d) ==
    {i \in 1..Len(keywords) :
        \E n \in 1..Len(keywords[i].exact) : Contains(Folded(d), StrLower(keywords[i].exact[n]))}

FuzzyHits(d) ==
    {p \in (1..Len(keywords)) \X (1..8) :
        /\ keywords[p[1]].form = "dict"
        /\ p[2] <= Len(keywords[p[1]].fuzzy)
        /\ ScoreGt(Similarity(keywords[p[1]].fuzzy[p[2]], Folded(d)), fuzzy_threshold)}

RegexHits(d) ==
    {i \in 1..Len(keywords) :
        /\ keywords[i].form = "dict"
        /\ \E n \in 1..Len(keywords[i].regex) :
              Compiles(keywords[i].regex[n]) /\ RegexSearch(keywords[i].regex[n], Folded(d))}

\* the first of the most similar fuzzy keywords
BestFuzzy(d) ==
    CHOOSE p \in FuzzyHits(d) :
        \A q \in FuzzyHits(d) :
            LET sp == Similarity(keywords[p[1]].fuzzy[p[2]], Folded(d))
                sq == Similarity(keywords[q[1]].fuzzy[q[2]], Folded(d))
            IN  \/ ScoreGt(sp, sq)
                \/ ~ScoreGt(sq, sp) /\ (p[1] < q[1] \/ (p[1] = q[1] /\ p[2] <= q[2]))

\* the hit of the first tier that matches, None when no tier matches
TierHit(d) ==
    IF ExactHits(d) # {} THEN keywords[First(ExactHits(d))].category
    ELSE IF FuzzyHits(d) # {} THEN keywords[BestFuzzy(d)[1]].category
    ELSE IF RegexHits(d) # {} THEN keywords[First(RegexHits(d))].category
    ELSE NoneValue

\* C2: match_transaction returns the hit of the first tier that matches in the
\* order exact, fuzzy, regex: a description that matches an exact keyword of
\* category A and a fuzzy keyword of category B yields A wherever B stands in
\* the table; a description no tier matches yields None, which batch_categorize
\* records as "Uncategorized", so a categorized transaction's category is
\* never None or empty.
C2_TierOrder ==
    /\ op = "match_transaction" =>
          /\ ~matcherOut.raised
          /\ matcherOut.val = TierHit(matcherIn)
          /\ (ExactHits(matcherIn) # {} /\ FuzzyHits(matcherIn) # {}) =>
                 matcherOut.val = keywords[First(ExactHits(matcherIn))].category
    /\ (op = "batch_categorize" /\ ~matcherOut.raised) =>
          /\ Len(matcherOut.val) = Len(matcherIn)
          /\ \A i \in 1..Len(matcherIn) :
                LET hit == TierHit(Get(matcherIn[i], "description", ""))
                    category == matcherOut.val[i].category
                IN  /\ category = IF hit = NoneValue THEN "Uncategorized" ELSE hit
                    /\ category # NoneValue
                    /\ category # ""

\* under a table whose first category holds the fuzzy keyword and whose second
\* holds the exact keyword, a batch of "STARBUCKS COFFEE" and "xyz" has been
\* categorized as the second category and "Uncategorized"
C2_Witness ==
    /\ op = "batch_categorize"
    /\ keywords = TierOrderTable
    /\ Len(matcherIn) = 2
    /\ Get(matcherIn[1], "description", "") = "STARBUCKS COFFEE"
    /\ Get(matcherIn[2], "description", "") = "xyz"
    /\ ExactHits("STARBUCKS COFFEE") = {2}
    /\ FuzzyHits("STARBUCKS COFFEE") = {<<1, 1>>}
    /\ ~matcherOut.raised
    /\ matcherOut.val[1].category = "Food"
    /\ matcherOut.val[2].category = "Uncategorized"

\* C10: a keyword table that fails to load (the file is missing or is not
\* valid JSON) raises to the caller, and so does categorizing while no keyword
\* table is loaded.
C10_HardFailure ==
    /\ (op \in {"load_keywords", "_load_configuration"} /\ configFile.state # "valid") =>
          matcherOut.raised
    /\ (op \in {"match_transaction", "batch_categorize"} /\ keywords = <<>>) =>
          matcherOut.raised

(***************************************************************************)
(* The report generators as a state machine: the caller normalises a date  *)
(* with each generator, or organizes a batch by month.                     *)
(***************************************************************************)
\* the normalisers and organize_transactions_by_month over the inputs,
\* evaluated once
ExtractedMonthYear ==
    [date_str \in DateInputs |->
        << Monthly_extract_month_year(date_str), Enhanced_extract_month_year(date_str),
           Pivot_extract_month_year(date_str) >>]

OrganizedBatch ==
    [txs \in OrganizeBatches |->
        <<organize_transactions_by_month(txs), Enhanced_organize_transactions_by_month(txs)>>]

ExtractMonthYearCall ==
    \E date_str \in DateInputs :
        /\ op' = "_extract_month_year"
        /\ dateIn' = date_str
        /\ dateOut' = ExtractedMonthYear[date_str]
        /\ UNCHANGED <<classifierVars, amountVars, matcherVars, extractVars, pipelineVars,
                     batchVars, chaseVars, filesVars, combineVars>>

OrganizeTransactionsByMonth ==
    \E txs \in OrganizeBatches :
        /\ op' = "organize_transactions_by_month"
        /\ dateIn' = txs
        /\ dateOut' = OrganizedBatch[txs]
        /\ UNCHANGED <<classifierVars, amountVars, matcherVars, extractVars, pipelineVars,
                     batchVars, chaseVars, filesVars, combineVars>>

DateNext == ExtractMonthYearCall \/ OrganizeTransactionsByMonth

SpecDate == Init /\ [][DateNext]_vars

GroupKey(t) ==
    LET month_year == Monthly_extract_month_year(Get(t, "date", "")).val
    IN  IF month_year = NoneValue THEN "Unknown" ELSE month_year

RECURSIVE TotalItems(_)
TotalItems(groups) ==
    IF groups = <<>> THEN 0 ELSE Len(Head(groups).items) + TotalItems(Tail(groups))

\* C7: organize_transactions_by_month partitions its input: every transaction
\* is in exactly one group, the group of its month key or "Unknown" when its
\* date is missing or does not parse; none is dropped or duplicated; a group
\* keeps the input order; no date value makes the call raise.
C7_OrganizePartitions ==
    op = "organize_transactions_by_month" =>
        \A k \in 1..2 :
            LET groups == dateOut[k].val
            IN  /\ ~dateOut[k].raised
                /\ \A g, h \in 1..Len(groups) : groups[g].key = groups[h].key => g = h
                /\ \A g \in 1..Len(groups) :
                      /\ groups[g].items # <<>>
                      /\ groups[g].items =
                             SelectSeq(dateIn, LAMBDA t : GroupKey(t) = groups[g].key)
                /\ TotalItems(groups) = Len(dateIn)
                /\ \A i \in 1..Len(dateIn) :
                      /\ \E g \in 1..Len(groups) : groups[g].key = GroupKey(dateIn[i])
                      /\ Get(dateIn[i], "date", "") \in {"garbage", "", NoneValue, NotAString} =>
                             GroupKey(dateIn[i]) = "Unknown"

\* a batch of a garbage date, a date of January 2024 and a missing date has
\* been organized into "Unknown" with the first and the third, and "2024-01"
C7_Witness ==
    /\ op = "organize_transactions_by_month"
    /\ Len(dateIn) = 3
    /\ Get(dateIn[1], "date", "") = "garbage"
    /\ Get(dateIn[2], "date", "") = "01/15/2024"
    /\ "date" \notin DOMAIN dateIn[3]
    /\ dateOut[1].val = << [key |-> "Unknown", items |-> <<dateIn[1], dateIn[3]>>],
                           [key |-> "2024-01", items |-> <<dateIn[2]>>] >>
    /\ dateOut[2] = dateOut[1]

(***************************************************************************)
(* The extractors as a state machine: the caller hands a text to both      *)
(* readers.                                                                *)
(***************************************************************************)
\* the first call is handed any text, a later call a text of the sample lines
ExtractTransactions ==
    \E text \in IF op = "init" THEN ExtractTexts ELSE SeqsUpTo(SampleLines, MaxLines) :
        /\ detect_bank_type(text) # "chase"
        /\ op' = "extract_transactions"
        /\ extractIn' = text
        /\ extractOut' = <<extract_transactions(text), Enhanced_extract_transactions(text)>>
        /\ UNCHANGED <<classifierVars, amountVars, matcherVars, dateVars, pipelineVars,
                     batchVars, chaseVars, filesVars, combineVars>>

ExtractNext == ExtractTransactions

SpecExtract == Init /\ [][ExtractNext]_vars

(***************************************************************************)
(* Claims about the line extractors                                        *)
(***************************************************************************)
\* C9: for every line '<date> <description> <signed dollar amount>' both
\* extractors emit one transaction whose date is the line's date and whose
\* amount, once normalized, equals the trailing amount of the line: the last
\* amount match is taken, and it is the whole amount token.
C9_TrailingAmount ==
    op = "extract_transactions" =>
        \A c \in LineCases :
            extractIn = <<c.line>> =>
                \A reader \in 1..2 :
                    /\ Len(extractOut[reader]) = 1
                    /\ extractOut[reader][1].date = c.date
                    /\ NumEq(clean_amount(extractOut[reader][1].amount).val, c.amount)

(***************************************************************************)
(* The whole pipeline as a state machine: the caller sets the keyword      *)
(* table and runs extraction, categorization and classification on a file. *)
(***************************************************************************)
\* run_analysis over the keyword tables and the statements, evaluated once
AnalysisRun ==
    [kw \in KeywordTables \cup {<<>>} |->
        [pdf_file \in Statements |-> run_analysis(kw, <<pdf_file>>)]]

RunAnalysis ==
    \E pdf_file \in Statements :
        /\ op' = "run_analysis"
        /\ pipelineIn' = pdf_file
        /\ pipelineOut' = AnalysisRun[keywords][pdf_file]
        /\ UNCHANGED <<classifierVars, amountVars, matcherVars, dateVars, extractVars,
                     batchVars, chaseVars, filesVars, combineVars>>

PipelineNext == SetKeywords \/ RunAnalysis

SpecPipeline == Init /\ [][PipelineNext]_vars

(***************************************************************************)
(* Claims about the whole pipeline                                         *)
(***************************************************************************)
\* the classification written on a classified transaction
Classification(t) == <<t.transaction_type, t.type_confidence, t.type_reason>>

MaxConcurrentBatch == 2

ConcurrentTransactions ==
    { [date |-> "01/15/2024", description |-> "STARBUCKS COFFEE", amount |-> RawStr("-5.75")],
      [date |-> "01/20/2024", description |-> "Walmrt", amount |-> RawStr("garbage")],
      [date |-> "01/18/2024", description |-> NoneValue, amount |-> RawNone] }

ConcurrentBatches == SeqsUpTo(ConcurrentTransactions, MaxConcurrentBatch)

ConcurrentDescriptions ==
    { Strip(StrLower(t.description)) : t \in {u \in ConcurrentTransactions : u.description # NoneValue} }

\* the tiers over the tables and the descriptions, evaluated once
ExactMatched ==
    [kw \in KeywordTables \cup {<<>>} |->
        [d \in ConcurrentDescriptions |-> _exact_match(kw, d)]]

FuzzyMatched ==
    [kw \in KeywordTables \cup {<<>>} |->
        [d \in ConcurrentDescriptions |-> _fuzzy_match(kw, d)]]

RegexMatched ==
    [kw \in KeywordTables \cup {<<>>} |->
        [d \in ConcurrentDescriptions |-> _regex_match(kw, d)]]

\* the transaction the loop of batch_categorize is at
BatchTransaction == batch.transactions[Len(batch.categorized) + 1]

\* `categorized.append(...)` with the category the call returned
BatchAppended(category) ==
    Append(batch.categorized,
           Updated(BatchTransaction,
                   [category |-> IF Truthy(category) THEN category ELSE "Uncategorized"]))

\* the call of batch_categorize
BatchStart ==
    \E txs \in ConcurrentBatches :
        /\ batch.pc = "idle"
        /\ op' = "batch_categorize"
        /\ batch' = [pc |-> "for", transactions |-> txs, description_lower |-> "",
                     categorized |-> <<>>, tableAtStart |-> keywords]
        /\ UNCHANGED <<classifierVars, amountVars, matcherVars, dateVars, extractVars,
                       pipelineVars, chaseVars, filesVars, combineVars>>

\* the head of the loop, and the body up to the first tier of match_transaction
BatchFor ==
    /\ batch.pc = "for"
    /\ op' = "match_transaction"
    /\ IF Len(batch.categorized) = Len(batch.transactions)
       THEN batch' = [batch EXCEPT !.pc = "returned"]
       ELSE LET description == Get(BatchTransaction, "description", "")
            IN  IF description = NoneValue
                THEN batch' = [batch EXCEPT !.pc = "raised"]
                ELSE batch' = [batch EXCEPT !.pc = "_exact_match",
                                            !.description_lower = Strip(StrLower(description))]
    /\ UNCHANGED <<classifierVars, amountVars, matcherVars, dateVars, extractVars,
                   pipelineVars, chaseVars, filesVars, combineVars>>

\* after a tier that read the table self.keywords names now: a match ends
\* the call and the loop body, no match leads to the next tier
AfterTier(match, next) ==
    IF Truthy(match) \/ next = "for"
    THEN [batch EXCEPT !.pc = "for", !.categorized = BatchAppended(match)]
    ELSE [batch EXCEPT !.pc = next]

BatchExactMatch ==
    /\ batch.pc = "_exact_match"
    /\ op' = "_exact_match"
    /\ batch' = AfterTier(ExactMatched[keywords][batch.description_lower], "_fuzzy_match")
    /\ UNCHANGED <<classifierVars, amountVars, matcherVars, dateVars, extractVars,
                   pipelineVars, chaseVars, filesVars, combineVars>>

BatchFuzzyMatch ==
    /\ batch.pc = "_fuzzy_match"
    /\ op' = "_fuzzy_match"
    /\ batch' = AfterTier(FuzzyMatched[keywords][batch.description_lower], "_regex_match")
    /\ UNCHANGED <<classifierVars, amountVars, matcherVars, dateVars, extractVars,
                   pipelineVars, chaseVars, filesVars, combineVars>>

BatchRegexMatch ==
    /\ batch.pc = "_regex_match"
    /\ op' = "_regex_match"
    /\ batch' = AfterTier(RegexMatched[keywords][batch.description_lower], "for")
    /\ UNCHANGED <<classifierVars, amountVars, matcherVars, dateVars, extractVars,
                   pipelineVars, chaseVars, filesVars, combineVars>>

\* the caller has the list, or the exception
BatchReturn ==
    /\ batch.pc \in {"returned", "raised"}
    /\ op' = "init"
    /\ batch' = NoBatch
    /\ UNCHANGED <<classifierVars, amountVars, matcherVars, dateVars, extractVars,
                   pipelineVars, chaseVars, filesVars, combineVars>>

ConcurrentNext ==
    \/ SetKeywords
    \/ LoadKeywords
    \/ BatchStart
    \/ BatchFor
    \/ BatchExactMatch
    \/ BatchFuzzyMatch
    \/ BatchRegexMatch
    \/ BatchReturn

SpecConcurrent == Init /\ [][ConcurrentNext]_vars

\* C11: a batch returns, for each of its transactions, the category that the
\* table current when batch_categorize was called gives it, every tier of
\* every match_transaction call having read that one table, whatever
\* set_keywords and load_keywords do on another thread meanwhile.
C11_OneTableVersion ==
    batch.pc = "returned" =>
        batch.categorized = batch_categorize(batch.tableAtStart, batch.transactions).val

(***************************************************************************)
(* The two enrichment stages in a row, as upload_files runs them: the      *)
(* batch is categorized, and the report generator classifies the           *)
(* categorized list.                                                       *)
(***************************************************************************)
\* batch_categorize on a batch, then classify_transactions on the list it
\* returned; an exception of batch_categorize ends the request with nothing
\* classified
CategorizeThenClassify ==
    \E txs \in MatchBatches :
        \E categorized_transactions \in {batch_categorize(keywords, txs)} :
            /\ matcherIn' = txs
            /\ matcherOut' = categorized_transactions
            /\ IF categorized_transactions.raised
               THEN /\ op' = "batch_categorize"
                    /\ transactions' = <<>>
                    /\ classified' = [raised |-> FALSE, out |-> <<>>]
                    /\ summary' = NoSummary
               ELSE /\ op' = "classify_transactions"
                    /\ transactions' = categorized_transactions.val
                    /\ classified' = classify_transactions(categorized_transactions.val)
                    /\ summary' = NoSummary
            /\ UNCHANGED <<keywords, configFile, amountVars, dateVars, extractVars, pipelineVars,
                           batchVars, chaseVars, filesVars, combineVars>>

StagesNext == SetKeywords \/ CategorizeThenClassify

SpecStages == Init /\ [][StagesNext]_vars

\* the fields a stage writes
CategoryFields == {"category"}

TypeFields == {"transaction_type", "type_confidence", "type_reason"}

\* `out` has one record per record of `in`, in order, each with the fields of
\* its input record and the stage's fields, the input's fields as they were
Enriched(in, out, fields) ==
    /\ Len(out) = Len(in)
    /\ \A i \in 1..Len(in) :
           /\ DOMAIN out[i] = (DOMAIN in[i]) \cup fields
           /\ \A f \in (DOMAIN in[i]) \ fields : out[i][f] = in[i][f]

ProcessPdfFiles ==
    \E data_dir \in DataDirs, pdf_files \in SeqsUpTo(Documents, MaxFiles) :
        /\ op' = "process_pdf_files"
        /\ filesIn' = [data_dir |-> data_dir, pdf_files |-> pdf_files]
        /\ filesOut' = process_pdf_files(data_dir, pdf_files)
        /\ UNCHANGED <<classifierVars, amountVars, matcherVars, dateVars, extractVars,
                       pipelineVars, batchVars, chaseVars, combineVars, reading>>

FilesNext == ProcessPdfFiles

SpecFiles == Init /\ [][FilesNext]_vars

\* what one document contributes: its transactions, stamped with its file
\* name, if the file is there and has text, and nothing otherwise
Contribution(pdf_file) ==
    IF pdf_file.exists /\ pdf_file.text # <<>>
    THEN LET extracted == Enhanced_extract_transactions(pdf_file.text)
         IN  [i \in 1..Len(extracted) |->
                 Updated(extracted[i], [source_file |-> Basename(pdf_file.path)])]
    ELSE <<>>

RECURSIVE Concatenation(_)
Concatenation(pdf_files) ==
    IF pdf_files = <<>> THEN <<>>
    ELSE Contribution(Head(pdf_files)) \o Concatenation(Tail(pdf_files))

\* C13: process_pdf_files never raises and returns the concatenation, in
\* document order, of what each document contributes; a missing document, a
\* document without text and a document without transactions contribute
\* nothing and hold up no later document.
C13_Concatenation ==
    op = "process_pdf_files" =>
        /\ ~filesOut.raised
        /\ filesOut.val = Concatenation(filesIn.pdf_files)

(***************************************************************************)
(* _combine_analyses called on its own.  _analyze_keywords gives a         *)
(* confidence of at least 0.6 whenever it gives a type, so the branch of   *)
(* the conflicting keywords is entered only by a caller that hands         *)
(* _combine_analyses a keyword result of its own making.                   *)
(***************************************************************************)
\* (base_type, base_confidence) as analyze_transaction sets them
BaseClassifications ==
    { [type |-> "income", confidence |-> 60],
      [type |-> "expense", confidence |-> 60],
      [type |-> "expense", confidence |-> 30] }

PatternResults ==
    { Evidence(NoneValue, 0, "No pattern match", <<>>),
      Evidence("income", 90, "Income pattern", <<income_patterns[1]>>),
      Evidence("expense", 90, "Expense pattern", <<expense_patterns[1]>>) }

\* confidences of a keyword result, in hundredths
KeywordConfidences == {0, 30, 39, 40, 50, 59, 60, 70, 80}

KeywordResults ==
    { Evidence(NoneValue, 0, "No keyword match", <<>>) }
    \cup { Evidence(type, confidence, "Keywords", <<type \o ":" \o "store">>) :
           type \in {"income", "expense"}, confidence \in KeywordConfidences }

CombineAnalyses ==
    \E base \in BaseClassifications, pattern_result \in PatternResults,
       keyword_result \in KeywordResults :
        /\ op' = "_combine_analyses"
        /\ combineIn' = [base_type |-> base.type, base_confidence |-> base.confidence,
                         pattern_result |-> pattern_result, keyword_result |-> keyword_result]
        /\ combineOut' = _combine_analyses(base.type, base.confidence,
                                           pattern_result, keyword_result)
        /\ UNCHANGED <<classifierVars, amountVars, matcherVars, dateVars, extractVars,
                       pipelineVars, batchVars, chaseVars, filesVars>>

CombineNext == CombineAnalyses

SpecCombine == Init /\ [][CombineNext]_vars

\* C16: when no strong regex matched and the keyword evidence names the
\* other type than the sign of the amount with a confidence in [0.4, 0.6),
\* the result keeps the type of the amount, its confidence is that of the
\* amount less 0.2 and at least 0.3, and its reason names the keyword
\* evidence.
C16_WeakConflict ==
    (/\ op = "_combine_analyses"
     /\ ~(combineIn.pattern_result.type # NoneValue
           /\ combineIn.pattern_result.confidence >= 80)
     /\ combineIn.keyword_result.type # NoneValue
     /\ combineIn.keyword_result.type # combineIn.base_type
     /\ combineIn.keyword_result.confidence >= 40
     /\ combineIn.keyword_result.confidence < 60) =>
        /\ combineOut.type = combineIn.base_type
        /\ combineOut.confidence =
               IF combineIn.base_confidence - 20 >= 30
               THEN combineIn.base_confidence - 20 ELSE 30
        /\ combineOut.reason.kind = "Amount-based but"
        /\ combineOut.reason.items =
               <<combineIn.base_type, combineIn.keyword_result.reason.kind>>
               \o combineIn.keyword_result.reason.items

\* an income amount at 0.6 against expense keywords at 0.5: income at 0.4
C16_Witness ==
    /\ op = "_combine_analyses"
    /\ combineIn.base_type = "income" /\ combineIn.base_confidence = 60
    /\ combineIn.pattern_result.type = NoneValue
    /\ combineIn.keyword_result.type = "expense"
    /\ combineIn.keyword_result.confidence = 50
    /\ combineOut.type = "income"
    /\ combineOut.confidence = 40

(***************************************************************************)
(* Claims about the lines the extractors take for transactions             *)
(***************************************************************************)
\* the positions of `line` inside a match of one of the date patterns
DatePositions(patterns, line) ==
    { k \in 1..Len(line) :
        \E n \in 1..Len(patterns), i \in 1..k :
            MatchLength(patterns[n], line, i) > k - i }

\* the line holds a date and, clear of every date, a match of amount_pattern
HasDateAndAmount(patterns, line) ==
    /\ DatePositions(patterns, line) # {}
    /\ \E i \in 1..Len(line) :
          /\ MatchLength(amount_pattern, line, i) > 0
          /\ \A k \in i..(i + MatchLength(amount_pattern, line, i) - 1) :
                 k \notin DatePositions(patterns, line)

RECURSIVE QualifyingLines(_, _)
\* the stripped lines of the text that hold both, in text order
QualifyingLines(patterns, text) ==
    IF text = <<>> THEN <<>>
    ELSE (IF HasDateAndAmount(patterns, Strip(Head(text))) THEN <<Strip(Head(text))>> ELSE <<>>)
         \o QualifyingLines(patterns, Tail(text))

\* C20: PDFReader.extract_transactions and the generic parser return one
\* transaction for each line that holds both a date and an amount that is no
\* part of a date, in line order, and none for any other line: a line with a
\* date and no amount, such as "01/15/2024 OPENING", and a line with an
\* amount and no date yield nothing.
C20_DateAndAmount ==
    op = "extract_transactions" =>
        /\ [i \in 1..Len(extractOut[1]) |-> extractOut[1][i].raw_line]
               = QualifyingLines(<<date_pattern>>, extractIn)
        /\ [i \in 1..Len(extractOut[2]) |-> extractOut[2][i].raw_line]
               = QualifyingLines(generic_date_patterns, extractIn)

(***************************************************************************)
(* The Chase parser as a state machine: _parse_chase_statement reads the   *)
(* lines of a text one at a time; in_transaction_section is FALSE while it *)
(* scans for a section and TRUE inside one.                                *)
(***************************************************************************)
MaxChaseLines == 3

ChaseLines ==
    { "JPMorgan Chase Bank", "Transaction Detail", "Card 11/15/2024 GROCERY $1,234.56",
      "01/15 COFFEE SHOP 5.75", "01/16/24 ATM WITHDRAWAL -40.00",
      "Account Summary", "01/17 INTEREST PAID 0.12",
      "balance transfer", "01/18 BALANCE TRANSFER 50.00",
      "01/19 DEPOSIT INTEREST 1.00", "   ", "1/2 1.00" }

ChaseTexts == SeqsUpTo(ChaseLines, MaxChaseLines)

\* line.strip() is empty
IsBlankLine(line) == Strip(line) = ""

\* any(keyword in line.lower() for keyword in [...]) of the header test
IsSectionHeader(line) == AnyIn(chase_headers, Strip(line))

\* the test that ends a section: a footer word and no transaction word
IsSectionFooter(line) ==
    AnyIn(chase_footers, Strip(line)) /\ ~AnyIn(chase_transaction_keywords, Strip(line))

\* the branch of the loop body each line takes inside a section, evaluated once
ChaseLineKind ==
    [line \in ChaseLines |->
        IF IsBlankLine(line) THEN "blank"
        ELSE IF IsSectionHeader(line) THEN "header"
        ELSE IF IsSectionFooter(line) THEN "footer"
        ELSE "other"]

\* _parse_chase_transaction_line on each stripped line, evaluated once
SectionParsed ==
    [line \in ChaseLines |->
        IF IsBlankLine(line) THEN <<>> ELSE _parse_chase_transaction_line(Strip(line))]

\* the body of the loop of _parse_chase_line_by_line on each line, evaluated once
LineByLineParsed == [line \in ChaseLines |-> ChaseLineByLine(line)]

\* EnhancedPDFReader._parse_chase_line_by_line
_parse_chase_line_by_line(lines) == ParsedLines(lines, LineByLineParsed)

\* the locals of _parse_chase_statement at its first line; section_lines,
\* states and section_transactions record the run: the lines handed to
\* _parse_chase_transaction_line, in_transaction_section after each line, and
\* the transactions the loop had collected when it ended
ChaseCall(text) ==
    [pc |-> "for", lines |-> text, i |-> 1, in_transaction_section |-> FALSE,
     transactions |-> <<>>, section_lines |-> {}, states |-> <<>>,
     section_transactions |-> <<>>, line_by_line |-> FALSE]

\* the loop body with a section ending at every line that holds a footer word
ChaseStepEndingOnAnyFooter(c) ==
    TheOne({ IF kind = "blank" THEN [c EXCEPT !.i = c.i + 1, !.states = Append(@, inside)]
             ELSE IF kind = "header"
             THEN [c EXCEPT !.i = c.i + 1, !.in_transaction_section = TRUE,
                            !.states = Append(@, TRUE)]
             ELSE IF inside /\ AnyIn(chase_footers, c.lines[c.i])
             THEN [c EXCEPT !.i = c.i + 1, !.in_transaction_section = FALSE,
                            !.states = Append(@, FALSE)]
             ELSE IF inside
             THEN [c EXCEPT !.i = c.i + 1, !.states = Append(@, TRUE),
                            !.transactions = @ \o SectionParsed[c.lines[c.i]],
                            !.section_lines = @ \cup {c.i}]
             ELSE [c EXCEPT !.i = c.i + 1, !.states = Append(@, FALSE)] :
             kind \in {ChaseLineKind[c.lines[c.i]]}, inside \in {c.in_transaction_section} })

\* one pass of the loop body of _parse_chase_statement over line c.i
ChaseStep(c) ==
    TheOne({ IF kind = "blank" THEN [c EXCEPT !.i = c.i + 1, !.states = Append(@, inside)]
             ELSE IF kind = "header"
             THEN [c EXCEPT !.i = c.i + 1, !.in_transaction_section = TRUE,
                            !.states = Append(@, TRUE)]
             ELSE IF inside /\ kind = "footer"
             THEN [c EXCEPT !.i = c.i + 1, !.in_transaction_section = FALSE,
                            !.states = Append(@, FALSE)]
             ELSE IF inside
             THEN [c EXCEPT !.i = c.i + 1, !.states = Append(@, TRUE),
                            !.transactions = @ \o SectionParsed[c.lines[c.i]],
                            !.section_lines = @ \cup {c.i}]
             ELSE [c EXCEPT !.i = c.i + 1, !.states = Append(@, FALSE)] :
             kind \in {ChaseLineKind[c.lines[c.i]]}, inside \in {c.in_transaction_section} })

\* the line-by-line result is appended to the section's
ChaseEndMixing(c) ==
    [c EXCEPT !.pc = "returned", !.section_transactions = c.transactions,
              !.line_by_line = (c.transactions = <<>>),
              !.transactions = @ \o _parse_chase_line_by_line(c.lines)]

\* the end of _parse_chase_statement: `if not transactions:` and the return
ChaseEnd(c) ==
    IF c.transactions = <<>>
    THEN [c EXCEPT !.pc = "returned", !.section_transactions = <<>>,
                   !.line_by_line = TRUE,
                   !.transactions = _parse_chase_line_by_line(c.lines)]
    ELSE [c EXCEPT !.pc = "returned", !.section_transactions = c.transactions]

\* the line the loop is at
ChaseAtLine == chase.pc = "for" /\ chase.i <= Len(chase.lines)

ChaseFrame ==
    UNCHANGED <<classifierVars, amountVars, matcherVars, dateVars, extractVars,
                pipelineVars, batchVars, filesVars, combineVars>>

\* _parse_chase_statement is called with a text
ChaseStart ==
    \E text \in ChaseTexts :
        /\ chase.pc = "idle"
        /\ op' = "_parse_chase_statement"
        /\ chase' = ChaseCall(text)
        /\ ChaseFrame

\* `if not line: continue`
ChaseBlankLine ==
    /\ ChaseAtLine
    /\ ChaseLineKind[chase.lines[chase.i]] = "blank"
    /\ chase' = ChaseStep(chase)
    /\ UNCHANGED op
    /\ ChaseFrame

\* a section header
ChaseHeaderLine ==
    /\ ChaseAtLine
    /\ ChaseLineKind[chase.lines[chase.i]] = "header"
    /\ chase' = ChaseStep(chase)
    /\ UNCHANGED op
    /\ ChaseFrame

\* the end of a section
ChaseFooterLine ==
    /\ ChaseAtLine
    /\ chase.in_transaction_section
    /\ ChaseLineKind[chase.lines[chase.i]] = "footer"
    /\ chase' = ChaseStep(chase)
    /\ UNCHANGED op
    /\ ChaseFrame

\* `if in_transaction_section:` the line is handed to _parse_chase_transaction_line
ChaseSectionLine ==
    /\ ChaseAtLine
    /\ chase.in_transaction_section
    /\ ChaseLineKind[chase.lines[chase.i]] = "other"
    /\ chase' = ChaseStep(chase)
    /\ UNCHANGED op
    /\ ChaseFrame

\* a line outside every section falls through the loop body
ChaseOutsideLine ==
    /\ ChaseAtLine
    /\ ~chase.in_transaction_section
    /\ ChaseLineKind[chase.lines[chase.i]] \in {"footer", "other"}
    /\ chase' = ChaseStep(chase)
    /\ UNCHANGED op
    /\ ChaseFrame

\* the loop found no transaction: the line-by-line pass over all the lines
ChaseLineByLineFallback ==
    /\ chase.pc = "for" /\ chase.i > Len(chase.lines)
    /\ chase.transactions = <<>>
    /\ chase' = ChaseEnd(chase)
    /\ UNCHANGED op
    /\ ChaseFrame

\* the loop found transactions: they are returned
ChaseSectionReturn ==
    /\ chase.pc = "for" /\ chase.i > Len(chase.lines)
    /\ chase.transactions # <<>>
    /\ chase' = ChaseEnd(chase)
    /\ UNCHANGED op
    /\ ChaseFrame

ChaseNext ==
    \/ ChaseStart
    \/ ChaseBlankLine
    \/ ChaseHeaderLine
    \/ ChaseFooterLine
    \/ ChaseSectionLine
    \/ ChaseOutsideLine
    \/ ChaseLineByLineFallback
    \/ ChaseSectionReturn

SpecChase == Init /\ [][ChaseNext]_vars

(***************************************************************************)
(* Claims about the Chase parser                                           *)
(***************************************************************************)
\* C17: the section pass starts scanning; a header line puts it in a
\* section; inside a section a line that holds a footer word (summary,
\* balance, fees, interest) puts it back to scanning and adds no
\* transaction, unless the line also holds a transaction word (transaction,
\* deposit, withdrawal, check), and then it stays in the section; no other
\* line changes the state, so a later header re-enters the section.
C17_SectionScanner ==
    [][ /\ (chase.pc = "idle" /\ chase'.pc = "for") => ~chase'.in_transaction_section
        /\ ChaseAtLine =>
             LET line == chase.lines[chase.i]
                 inside == chase.in_transaction_section
                 footer == AnyIn(<<"summary", "balance", "fees", "interest">>, line)
                 word == AnyIn(<<"transaction", "deposit", "withdrawal", "check">>, line)
             IN  /\ IsSectionHeader(line) => chase'.in_transaction_section
                 /\ (inside /\ footer /\ ~word) =>
                        /\ ~chase'.in_transaction_section
                        /\ chase'.transactions = chase.transactions
                 /\ (inside /\ footer /\ word) => chase'.in_transaction_section
                 /\ (inside /\ ~footer) => chase'.in_transaction_section
                 /\ (~inside /\ ~IsSectionHeader(line)) => ~chase'.in_transaction_section
      ]_vars

\* a header, a deposit of interest that stays in the section and is
\* extracted, and a summary line that ends the section
C17_Witness ==
    /\ chase.lines = <<"Transaction Detail", "01/19 DEPOSIT INTEREST 1.00", "Account Summary">>
    /\ chase.states = <<TRUE, TRUE, FALSE>>
    /\ Len(chase.transactions) = 1
    /\ chase.transactions[1].raw_line = "01/19 DEPOSIT INTEREST 1.00"

\* the line was read inside a section
ReadInSection(k) == k > 1 /\ k - 1 <= Len(chase.states) /\ chase.states[k - 1]

\* C18: a line "balance transfer" read inside a section does not end it: the
\* scanner is in the section after the line, and a transaction line right
\* after it is handed to the section pass and is in its transactions.
C18_BalanceTransferStays ==
    \A j \in 1..Len(chase.states) :
        (chase.lines[j] = "balance transfer" /\ ReadInSection(j)) =>
            /\ chase.states[j]
            /\ (j + 1 <= Len(chase.states) /\ SectionParsed[chase.lines[j + 1]] # <<>>
                    /\ ChaseLineKind[chase.lines[j + 1]] = "other") =>
                   /\ j + 1 \in chase.section_lines
                   /\ \E n \in 1..Len(chase.transactions) :
                          chase.transactions[n] = SectionParsed[chase.lines[j + 1]][1]

\* C30: a line that parses as a transaction, read while the scanner is in a
\* section, is emitted and leaves the scanner in the section: it is neither
\* a header nor a footer, whatever words its description holds (interest,
\* fees, balance, transaction), so the transaction lines after it are read.
C30_TransactionLineEmitted ==
    [][ (ChaseAtLine /\ chase.in_transaction_section
            /\ SectionParsed[chase.lines[chase.i]] # <<>>) =>
            /\ chase'.in_transaction_section
            /\ chase'.transactions = chase.transactions \o SectionParsed[chase.lines[chase.i]]
      ]_vars

RECURSIVE ParsedAt(_, _)
\* the transactions of the lines at the positions from k on that are in `at`
ParsedAt(k, at) ==
    IF k > Len(chase.lines) THEN <<>>
    ELSE (IF k \in at THEN SectionParsed[chase.lines[k]] ELSE <<>>) \o ParsedAt(k + 1, at)

\* C19: the line-by-line pass runs over the whole text if and only if the
\* section pass found no transaction, and the result is then the
\* line-by-line result; otherwise the result is the section pass's, made of
\* lines read inside a section only, so a transaction line outside every
\* section adds nothing; the results of the two passes are never mixed.
C19_OnePass ==
    chase.pc = "returned" =>
        /\ chase.line_by_line <=> chase.section_transactions = <<>>
        /\ chase.line_by_line =>
               chase.transactions = _parse_chase_line_by_line(chase.lines)
        /\ ~chase.line_by_line =>
               /\ chase.transactions = chase.section_transactions
               /\ \A k \in chase.section_lines : ReadInSection(k)
               /\ chase.transactions = ParsedAt(1, chase.section_lines)

\* the purchase before the header would be a transaction of the
\* line-by-line pass; the section pass found the withdrawal, and it is all
\* that is returned
C19_Witness ==
    /\ chase.pc = "returned"
    /\ chase.lines = <<"01/15 COFFEE SHOP 5.75", "Transaction Detail",
                       "01/16/24 ATM WITHDRAWAL -40.00">>
    /\ ~chase.line_by_line
    /\ LineByLineParsed["01/15 COFFEE SHOP 5.75"] # <<>>
    /\ Len(chase.transactions) = 1
    /\ chase.transactions[1].raw_line = "01/16/24 ATM WITHDRAWAL -40.00"

(***************************************************************************)
(* Claims about the fields of the extracted transactions                   *)
(***************************************************************************)
\* the description is the line without its amount
WithoutAmount(t) ==
    /\ t.description = Strip(RemoveAll(t.raw_line, t.amount.str))
    /\ ~Contains(t.description, t.amount.str)

\* C21: the description of every transaction of PDFReader.extract_transactions
\* and of the generic parser is the stripped line with the matched amount
\* removed, and the amount does not occur in it.
C21_DescriptionWithoutAmount ==
    op = "extract_transactions" =>
        \A r \in 1..2 : \A n \in 1..Len(extractOut[r]) : WithoutAmount(extractOut[r][n])

(***************************************************************************)
(* Claims about the years and months of the month keys                     *)
(***************************************************************************)
\* C22: a date with a two-digit year yy, whole string or embedded, gets the
\* month key of the year 20yy when yy < 50 and of 19yy when yy >= 50:
\* '01/15/55' gives '1955-01' and '01/15/49' gives '2049-01'.
C22_TwoDigitYear ==
    op = "_extract_month_year" =>
        \A c \in ShortYearCases :
            dateIn = c.text =>
                dateOut[1] = Returned(MonthKey(IF c.yy < 50 THEN 2000 + c.yy ELSE 1900 + c.yy,
                                               c.month))

\* C23: for a date inside a longer string the regex fallback takes the group
\* of four digits as the year and, of the two other groups, the one that is
\* at most 12 as the month, the first when both are: 'posted 01/15/2024' and
\* 'posted 2024-01-15' both give '2024-01'.
C23_EmbeddedDate ==
    op = "_extract_month_year" =>
        \A c \in EmbeddedCases :
            dateIn = c.text =>
                \A g \in 1..2 :
                    dateOut[g] = Returned(MonthKey(c.year, IF c.first <= 12 THEN c.first
                                                           ELSE c.second))

\* 'YYYY-MM' with a month of the calendar
CanonicalMonthKey(key) ==
    /\ Len(key) = 7
    /\ AllDigits(SubSeq(key, 1, 4))
    /\ Char(key, 5) = "-"
    /\ AllDigits(SubSeq(key, 6, 7))
    /\ DigitsToNat(SubSeq(key, 6, 7)) \in 1..12

\* C28: every month key _extract_month_year returns that is not None is a
\* 'YYYY-MM' string with a month from 01 to 12, whatever the input string,
\* strings with out-of-range dates such as '13/45/2024' and '00/15/2024'
\* included.
C28_CanonicalMonthKeys ==
    op = "_extract_month_year" =>
        \A g \in 1..2 :
            \/ dateOut[g] = Returned(NoneValue)
            \/ /\ ~dateOut[g].raised
               /\ CanonicalMonthKey(dateOut[g].val)

\* the date stands in the line as a whole token: no digit before or after it
CompleteDateToken(date, line) ==
    \E i \in 1..Len(line) :
        /\ At(line, i, date)
        /\ i = 1 \/ ~IsDigit(Char(line, i - 1))
        /\ i + Len(date) > Len(line) \/ ~IsDigit(Char(line, i + Len(date)))

\* C24: the date of every transaction the Chase parser returns, from the
\* section pass or from the line-by-line pass, is a whole date of its line
\* and no fragment of one: a line that holds 11/15/2024 after other text
\* gives the date '11/15/2024', not '1/15/2024'.
C24_CompleteDate ==
    chase.pc = "returned" =>
        \A n \in 1..Len(chase.transactions) :
            CompleteDateToken(chase.transactions[n].date, chase.transactions[n].raw_line)

(***************************************************************************)
(* The pivot report data of PivotMonthlyReportGenerator: the rows of a     *)
(* section are its categories in the order they were first seen, each with *)
(* one cell for every month and a total.                                   *)
(***************************************************************************)
\* round(x, 2) of an amount that is not negative; a float that holds at most
\* two decimals is left as it is, a longer one goes to the nearest hundredth
Round2(a) ==
    IF AtMostTwoDecimals(a) THEN a
    ELSE LET q == (100 * a.num) \div a.den
             r == (100 * a.num) % a.den
         IN  IF 2 * r > a.den \/ (2 * r = a.den /\ q % 2 = 1) THEN Num(q + 1, 100)
             ELSE Num(q, 100)

\* the order of the characters of a month key
CharRank(c) == CHOOSE n \in 1..11 : Char("-0123456789", n) = c

RECURSIVE StrLess(_, _)
\* a < b for two month keys
StrLess(a, b) ==
    IF b = "" THEN FALSE
    ELSE IF a = "" THEN TRUE
    ELSE IF Char(a, 1) = Char(b, 1) THEN StrLess(SubSeq(a, 2, Len(a)), SubSeq(b, 2, Len(b)))
    ELSE CharRank(Char(a, 1)) < CharRank(Char(b, 1))

RECURSIVE sorted(_)
\* sorted(list(all_months))
sorted(S) ==
    IF S = {} THEN <<>>
    ELSE TheOne({ <<m>> \o sorted(S \ {m}) :
                  m \in {CHOOSE x \in S : \A y \in S \ {x} : StrLess(x, y)} })

MaxPivotBatch == 2

PivotDates == {"01/15/2024", "2024-02-01", "garbage"}

PivotTransactions ==
    { [date |-> d, amount |-> RawStr(a), category |-> k[2], transaction_type |-> k[1]] :
      d \in PivotDates, a \in {"-5.75", "$2,500.00"},
      k \in {<<"income", "Salary">>, <<"expense", "Dining">>} }
    \cup { [date |-> d, amount |-> RawStr(a), transaction_type |-> "expense"] :
           d \in PivotDates, a \in {"-5.75", "$2,500.00"} }

PivotBatches == SeqsUpTo(PivotTransactions, MaxPivotBatch)

\* PivotMonthlyReportGenerator._extract_month_year over the dates, evaluated once
PivotMonthYear ==
    [date_str \in PivotDates \cup {""} |-> Pivot_extract_month_year(date_str).val]

\* PivotMonthlyReportGenerator._clean_amount: the code of the analyzer's
Pivot_clean_amount(raw) == _clean_amount(raw)

\* abs(self._clean_amount(transaction.get('amount', 0)))
PivotAmount(transaction) ==
    NumAbs(Pivot_clean_amount(Get(transaction, "amount", RawNum(Zero))).val)

\* self._extract_month_year(transaction.get('date', ''))
PivotMonthOf(transaction) == PivotMonthYear[Get(transaction, "date", "")]

RECURSIVE PivotCategories(_, _)
\* the keys of category_month_data in the order they were inserted: a
\* category is inserted by its first transaction that has a month
PivotCategories(txs, seen) ==
    IF txs = <<>> THEN <<>>
    ELSE TheOne({ IF PivotMonthOf(Head(txs)) # NoneValue /\ category \notin seen
                  THEN <<category>> \o PivotCategories(Tail(txs), seen \cup {category})
                  ELSE PivotCategories(Tail(txs), seen) :
                  category \in {Get(Head(txs), "category", "Uncategorized")} })

RECURSIVE PivotCell(_, _, _)
\* category_month_data[category][month] after the loop
PivotCell(txs, category, month) ==
    IF txs = <<>> THEN Zero
    ELSE IF /\ Get(Head(txs), "category", "Uncategorized") = category
            /\ PivotMonthOf(Head(txs)) = month
    THEN NumAdd(Round2(PivotAmount(Head(txs))),
                PivotCell(Tail(txs), category, month))
    ELSE PivotCell(Tail(txs), category, month)

RECURSIVE NumSum(_)
\* the sum of a list of numbers
NumSum(amounts) == IF amounts = <<>> THEN Zero ELSE NumAdd(Head(amounts), NumSum(Tail(amounts)))

\* PivotMonthlyReportGenerator._organize_by_category_and_month
_organize_by_category_and_month(txs, months) ==
    TheOne({ [n \in 1..Len(categories) |->
                 TheOne({ [category |-> categories[n],
                           cells |-> [k \in 1..Len(months) |-> Round2(amounts[k])],
                           total |-> Round2(NumSum(amounts))] :
                          amounts \in {[k \in 1..Len(months) |->
                                           PivotCell(txs, categories[n], months[k])]} })] :
             categories \in {PivotCategories(txs, {})} })

\* [t for t in transactions if t.get('transaction_type') == type]
OfType(txs, type) ==
    SelectSeq(txs, LAMBDA t : Get(t, "transaction_type", NoneValue) = type)

\* PivotMonthlyReportGenerator._organize_pivot_data
_organize_pivot_data(txs) ==
    TheOne({ [months |-> sorted_months,
              income_data |->
                  _organize_by_category_and_month(OfType(txs, "income"), sorted_months),
              expense_data |->
                  _organize_by_category_and_month(OfType(txs, "expense"), sorted_months),
              total_transactions |-> Len(txs),
              income_count |-> Len(OfType(txs, "income")),
              expense_count |-> Len(OfType(txs, "expense"))] :
             sorted_months \in
                 {sorted({PivotMonthOf(txs[n]) : n \in 1..Len(txs)}
                             \ {NoneValue})} })

\* the caller hands a batch of classified transactions to the pivot generator
OrganizePivotData ==
    \E txs \in PivotBatches :
        /\ op' = "_organize_pivot_data"
        /\ dateIn' = txs
        /\ dateOut' = _organize_pivot_data(txs)
        /\ UNCHANGED <<classifierVars, amountVars, matcherVars, extractVars, pipelineVars,
                       batchVars, chaseVars, filesVars, combineVars>>

PivotNext == OrganizePivotData

SpecPivot == Init /\ [][PivotNext]_vars

\* the totals of the rows of a section
SectionTotal(rows) == NumSum([n \in 1..Len(rows) |-> rows[n].total])

\* the absolute amounts of the transactions of a type
AbsTotal(txs, type) ==
    NumSum([n \in 1..Len(OfType(txs, type)) |->
               PivotAmount(OfType(txs, type)[n])])

\* C25: every classified transaction adds its absolute amount to one
\* category row of the section of its type, one without a date that can be
\* parsed included: the totals of the rows of the income section add up to
\* the absolute amounts of the income transactions, those of the expense
\* section to the absolute amounts of the expense transactions, and the
\* total of every row is the sum of its month cells.
C25_PivotTotals ==
    op = "_organize_pivot_data" =>
        /\ NumEq(SectionTotal(dateOut.income_data), AbsTotal(dateIn, "income"))
        /\ NumEq(SectionTotal(dateOut.expense_data), AbsTotal(dateIn, "expense"))
        /\ \A rows \in {dateOut.income_data, dateOut.expense_data} :
               \A n \in 1..Len(rows) : NumEq(rows[n].total, NumSum(rows[n].cells))

(***************************************************************************)
(* extract_text_from_pdf of PDFReader and EnhancedPDFReader as a state     *)
(* machine: a call that fails calls itself with the other method from its  *)
(* handler; `stack` holds the method of every call that has not returned.  *)
(***************************************************************************)
extraction_methods == {"pdfplumber", "pypdf2"}

\* the frames the interpreter allows before it raises RecursionError
RecursionLimit == 6

\* what a library does with a file: it raises, or it returns the text
Fails == "<raises>"

LibraryOutcomes == {Fails, "", "01/15/2024 COFFEE -$5.75"}

Pdfs == [pdfplumber : LibraryOutcomes, pypdf2 : LibraryOutcomes]

\* alternative_method = 'pypdf2' if method == 'pdfplumber' else 'pdfplumber'
alternative_method(method) == IF method = "pdfplumber" THEN "pypdf2" ELSE "pdfplumber"

\* _extract_with_pdfplumber or _extract_with_pypdf2 on the file
ExtractWith(pdf, method) == IF method = "pdfplumber" THEN pdf.pdfplumber ELSE pdf.pypdf2

\* the method of the innermost call
InnermostMethod == reading.stack[Len(reading.stack)]

ReadingFrame ==
    UNCHANGED <<classifierVars, amountVars, matcherVars, dateVars, extractVars,
                pipelineVars, batchVars, chaseVars, filesIn, filesOut, combineVars>>

\* extract_text_from_pdf(pdf_path, method) is called
ExtractTextCall ==
    \E pdf \in Pdfs, method \in extraction_methods \cup {"ocr"} :
        /\ reading.pc = "idle"
        /\ op' = "extract_text_from_pdf"
        /\ reading' = [pc |-> "try", pdf |-> pdf, stack |-> <<method>>, tried |-> <<>>,
                       result |-> ""]
        /\ ReadingFrame

\* the library of the innermost call returns the text, and every call
\* returns what the call it made returned
ExtractionReturns ==
    /\ reading.pc = "try"
    /\ InnermostMethod \in extraction_methods
    /\ ExtractWith(reading.pdf, InnermostMethod) # Fails
    /\ reading' = [reading EXCEPT !.pc = "returned", !.stack = <<>>,
                                  !.tried = Append(@, InnermostMethod),
                                  !.result = ExtractWith(reading.pdf, InnermostMethod)]
    /\ UNCHANGED op
    /\ ReadingFrame

\* the library of the innermost call raises: `except Exception as e`
ExtractionFails ==
    /\ reading.pc = "try"
    /\ InnermostMethod \in extraction_methods
    /\ ExtractWith(reading.pdf, InnermostMethod) = Fails
    /\ reading' = [reading EXCEPT !.pc = "except", !.tried = Append(@, InnermostMethod)]
    /\ UNCHANGED op
    /\ ReadingFrame

\* raise ValueError(f"Unsupported extraction method: {method}")
UnsupportedMethod ==
    /\ reading.pc = "try"
    /\ InnermostMethod \notin extraction_methods
    /\ reading' = [reading EXCEPT !.pc = "except"]
    /\ UNCHANGED op
    /\ ReadingFrame

\* the handler calls extract_text_from_pdf with the other method
TryAlternative ==
    /\ reading.pc = "except"
    /\ Len(reading.stack) < RecursionLimit
    /\ reading' = [reading EXCEPT !.pc = "try",
                                  !.stack = Append(@, alternative_method(InnermostMethod))]
    /\ UNCHANGED op
    /\ ReadingFrame

\* no frame is left for the call: RecursionError, `except Exception as e2`
\* returns "" and every call returns it
AlternativeAlsoFailed ==
    /\ reading.pc = "except"
    /\ Len(reading.stack) = RecursionLimit
    /\ reading' = [reading EXCEPT !.pc = "returned", !.stack = <<>>, !.result = ""]
    /\ UNCHANGED op
    /\ ReadingFrame

\* the caller has the text
ExtractTextDone ==
    /\ reading.pc = "returned"
    /\ op' = "init"
    /\ reading' = NoReading
    /\ ReadingFrame

ReadingNext ==
    \/ ExtractTextCall
    \/ ExtractionReturns
    \/ ExtractionFails
    \/ UnsupportedMethod
    \/ TryAlternative
    \/ AlternativeAlsoFailed
    \/ ExtractTextDone

SpecReading == Init /\ [][ReadingNext]_vars

(***************************************************************************)
(* Claims about extract_text_from_pdf                                      *)
(***************************************************************************)
\* the times the method was tried
TimesTried(method) == Cardinality({n \in 1..Len(reading.tried) : reading.tried[n] = method})

\* C27: extract_text_from_pdf tries each extraction method at most once: when
\* the requested method fails it tries the other one once, and when that
\* fails too it returns the empty string without going back to the first.
C27_EachMethodOnce ==
    \A method \in extraction_methods : TimesTried(method) <= 1

====
